---- MODULE Spec2Model ----
(***************************************************************************)
(* A model of the mochi virtual machine (src/src/vm.rs): the value stack,  *)
(* the frame list, the open-upvalue map, the per-frame dispatch loop and   *)
(* the heap it allocates from.  Stack indices are 0-based as in the source *)
(* (At/Put translate to TLA+'s 1-based sequences).                         *)
(*                                                                         *)
(* The collector (GcHeap: allocate, step) is not among the source files;   *)
(* it is modelled from section 4.1 of the specification.                   *)
(***************************************************************************)
EXTENDS Integers, Sequences, FiniteSets, TLC

VARIABLES
    fuel,           \* the number of instructions the script may run (a bound of the model)
    stack,          \* Vm::stack, the value stack
    frames,         \* Vm::frames, a sequence of [bottom, pc]
    open_upvalues,  \* Vm::open_upvalues, stack index -> upvalue cell
    heap,           \* GcHeap: objects, colours, gray list, cycle flag
    state,          \* the State of the running execute_frame (bottom, pc)
    exec,           \* the locals of the running Vm::execute
    last,           \* history: the instruction executed last and its operands
    overflow_checks,\* whether the build checks integer overflow (debug) or wraps (release)
    ops,            \* the last direct call of a helper or of a library function and its outcome
    package         \* package.loaded, and (history) the modules a require has completed for

vars == <<fuel, stack, frames, open_upvalues, heap, state, exec, last, overflow_checks, ops,
          package>>

----------------------------------------------------------------------------
(* Bounds *)

MaxObjs == 7        \* heap objects allocated in one behaviour
MaxInsns == 5       \* instructions other than returns that one execute call may run (Spec)
MaxTableInsns == 9  \* the same for a script of table instructions (SpecTable)
MaxRetryInsns == 4  \* the same, over all the execute calls of a host (SpecRetry)
MaxArithInsns == 3  \* the same for a script of arithmetic instructions (SpecArith)
IntegerBits == 4    \* the width of Integer in the model (i64 in the source)
MaxJumpInsns == 4   \* the same for a script of jumps and loads (SpecJump)
MaxIndexInsns == 4  \* the same for a script of indexing instructions (SpecIndex)
MaxConcatInsns == 4 \* the same for a script of loads and Concat (SpecConcat)
MaxSlotInsns == 3   \* the same for a script of arithmetic on three constants (SpecSlot)

----------------------------------------------------------------------------
(* Values (types::Value) *)

Nil == [t |-> "nil", v |-> 0]
IntV(n) == [t |-> "int", v |-> n]
LuaV(o) == [t |-> "lua", v |-> o]
TabV(o) == [t |-> "table", v |-> o]
NatV(f) == [t |-> "native", v |-> f]

Immediates == {1}

IsRef(x) == x.t \in {"lua", "table"}

(* The prototypes handed over by the loader: the main chunk, a function      *)
(* defined in it, a chunk of eight registers that runs a numeric for loop,  *)
(* and a chunk of three registers.                                          *)
Protos ==
    << [max_stack_size |-> 2, upvalues |-> <<>>, protos |-> <<2>>],
       [max_stack_size |-> 2,
        upvalues |-> << [in_stack |-> TRUE, index |-> 0],
                        [in_stack |-> TRUE, index |-> 1],
                        [in_stack |-> FALSE, index |-> 0] >>,
        protos |-> <<>>],
       [max_stack_size |-> 8, upvalues |-> <<>>, protos |-> <<>>],
       [max_stack_size |-> 3, upvalues |-> <<>>, protos |-> <<>>] >>

At(s, i) == s[i + 1]
Put(s, i, x) == [s EXCEPT ![i + 1] = x]
Last(s) == s[Len(s)]
Front(s) == SubSeq(s, 1, Len(s) - 1)

\* Vec::truncate
Truncate(s, n) == IF Len(s) > n THEN SubSeq(s, 1, n) ELSE s

\* a faulty resize: one slot short
Resize_short(s, n) ==
    IF Len(s) >= n - 1 THEN SubSeq(s, 1, n - 1)
    ELSE s \o [i \in 1..(n - 1 - Len(s)) |-> Nil]

\* Vec::resize(n, Value::Nil)
Resize(s, n) ==
    IF Len(s) >= n THEN SubSeq(s, 1, n)
    ELSE s \o [i \in 1..(n - Len(s)) |-> Nil]

----------------------------------------------------------------------------
(* The heap.  heap.objs maps every object ever allocated to its content;   *)
(* heap.color gives "white", "gray", "black", or "freed" once swept.       *)

GlobalTable == 1

Upvalue_Open(i) == [kind |-> "upvalue", open |-> TRUE, i |-> i, x |-> Nil]
Upvalue_Closed(x) == [kind |-> "upvalue", open |-> FALSE, i |-> 0, x |-> x]
LuaClosure(p, ups) == [kind |-> "closure", proto |-> p, upvalues |-> ups]
Table_new == [kind |-> "table", f |-> Nil]

NextId(h) == Cardinality(DOMAIN h.objs) + 1
CanAllocate(h, n) == Cardinality(DOMAIN h.objs) + n <= MaxObjs

\* GcHeap::allocate / allocate_cell
Allocate(h, obj) ==
    LET o == NextId(h)
    IN  [h EXCEPT !.objs = [p \in DOMAIN h.objs \cup {o} |->
                               IF p = o THEN obj ELSE h.objs[p]],
                  !.color = [p \in DOMAIN h.objs \cup {o} |->
                               IF p = o THEN (IF h.cycle THEN "black" ELSE "white")
                               ELSE h.color[p]]]

ValueRefs(x) == IF IsRef(x) THEN <<x.v>> ELSE <<>>

RECURSIVE SeqRefs(_)
\* Trace for a slice / Vec of values: every element in order
SeqRefs(s) == IF s = <<>> THEN <<>> ELSE ValueRefs(Head(s)) \o SeqRefs(Tail(s))

\* the managed references an object owns, in the order trace visits them
ObjRefs(obj) ==
    CASE obj.kind = "closure" -> obj.upvalues
      [] obj.kind = "upvalue" -> IF obj.open THEN <<>> ELSE ValueRefs(obj.x)
      [] obj.kind = "table" -> ValueRefs(obj.f)

\* tracing a reference: a white object turns gray and joins the gray list
Mark(h, o) ==
    IF h.color[o] = "white"
    THEN [h EXCEPT !.color[o] = "gray", !.gray = Append(@, o)]
    ELSE h

RECURSIVE MarkAll(_, _)
MarkAll(h, refs) ==
    IF refs = <<>> THEN h ELSE MarkAll(Mark(h, Head(refs)), Tail(refs))

\* pop one gray object, blacken it, trace what it refers to
Propagate(h) ==
    LET o == Last(h.gray)
        h1 == [h EXCEPT !.gray = Front(@), !.color[o] = "black"]
    IN  MarkAll(h1, ObjRefs(h.objs[o]))

\* sweep the white objects; the survivors are white for the next cycle
Sweep(h) ==
    [h EXCEPT !.color = [o \in DOMAIN h.color |->
                            CASE h.color[o] = "white" -> "freed"
                              [] h.color[o] = "black" -> "white"
                              [] OTHER -> h.color[o]],
              !.cycle = FALSE]

\* GcHeap::step(root)
Step(h, roots) ==
    LET h1 == IF h.cycle THEN h ELSE MarkAll([h EXCEPT !.cycle = TRUE], roots)
        h2 == IF h1.gray # <<>> THEN Propagate(h1) ELSE h1
    IN  IF h2.gray = <<>> THEN Sweep(h2) ELSE h2

RECURSIVE MapRefs(_)
\* Trace for BTreeMap: the entries in key order
MapRefs(m) ==
    IF DOMAIN m = {} THEN <<>>
    ELSE LET k == CHOOSE k \in DOMAIN m : \A j \in DOMAIN m : k <= j
         IN  <<m[k]>> \o MapRefs([j \in DOMAIN m \ {k} |-> m[j]])

\* Trace for Vm
VmTrace(stk, ou) == SeqRefs(stk) \o <<GlobalTable>> \o MapRefs(ou)

\* Trace for State: the register window, then the lower stack
StateTrace(stk, bottom) ==
    SeqRefs(SubSeq(stk, bottom + 2, Len(stk))) \o SeqRefs(SubSeq(stk, 1, bottom + 1))

\* Trace for Root in execute_frame
RootTrace(stk, bottom, ou) ==
    StateTrace(stk, bottom) \o <<GlobalTable>> \o MapRefs(ou)

----------------------------------------------------------------------------
(* The interpreter *)

NoState == [active |-> FALSE, bottom |-> 0, pc |-> 0, prev_stack_top |-> 0]
NoLast == [op |-> "none", a |-> 0, b |-> 0, k |-> FALSE, n |-> 0]
\* the names of the modules a script may require
Modules == {"a", "b", "c"}

NoOps == [fn |-> "none", x |-> 0, y |-> 0, out |-> [ok |-> TRUE, v |-> 0]]

Hist(op, a, b, k, n) == [op |-> op, a |-> a, b |-> b, k |-> k, n |-> n]

\* the closure the running frame executes (lower_stack.last())
Closure_(stk, bottom) == At(stk, bottom).v
Proto(h, stk, bottom) == Protos[h.objs[Closure_(stk, bottom)].proto]
MaxStack == IF state.active THEN Proto(heap, stack, state.bottom).max_stack_size ELSE 0
Regs == 0..(MaxStack - 1)

\* state.stack[k]: register k of the running frame
Reg(stk, bottom, k) == At(stk, bottom + 1 + k)
SetReg(stk, bottom, k, x) == Put(stk, bottom + 1 + k, x)

Start ==
    /\ stack = <<>>
    /\ frames = <<>>
    /\ open_upvalues = <<>>
    /\ heap = [objs |-> [o \in {GlobalTable} |-> [kind |-> "table", f |-> NatV(1)]],
               color |-> [o \in {GlobalTable} |-> "white"],
               gray |-> <<>>,
               cycle |-> FALSE]
    /\ state = NoState
    /\ exec = [active |-> FALSE, bottom |-> 0, frame_level |-> 0, result |-> "none",
               error |-> "none", ty |-> "none", value |-> Nil, insns |-> 0,
               traceback |-> <<>>]
    /\ last = NoLast
    /\ ops = NoOps
    /\ package = [loaded |-> [name \in Modules |-> Nil], required |-> {}]

Init == fuel = MaxInsns /\ overflow_checks = FALSE /\ Start

\* Vm::execute, up to the driver loop; proto is the prototype of the closure
\* it is given
ExecuteClosure(proto) ==
    /\ ~exec.active
    /\ exec.result = "none"
    /\ CanAllocate(heap, 2)
    /\ LET h1 == Allocate(heap, Upvalue_Closed(TabV(GlobalTable)))
           cell == NextId(heap)
           h2 == Allocate(h1, LuaClosure(proto, <<cell>>))
           bottom == Len(stack)
       IN  /\ heap' = h2
           /\ stack' = Append(stack, LuaV(NextId(h1)))
           /\ frames' = Append(frames, [bottom |-> bottom, pc |-> 0])
           /\ exec' = [exec EXCEPT !.active = TRUE, !.bottom = bottom,
                                   !.frame_level = Len(frames)]
    /\ last' = Hist("Execute", 0, 0, FALSE, 0)
    /\ UNCHANGED <<open_upvalues, state>>

\* execute called on the main chunk
Execute == ExecuteClosure(1)

\* Vm::execute_frame, up to the dispatch loop
EnterFrame ==
    /\ exec.active
    /\ ~state.active
    /\ Len(frames) > exec.frame_level
    /\ LET frame == Last(frames)
           size == frame.bottom + 1 + Proto(heap, stack, frame.bottom).max_stack_size
       IN  /\ stack' = Resize(stack, size)
           /\ state' = [active |-> TRUE, bottom |-> frame.bottom, pc |-> frame.pc,
                        prev_stack_top |-> Len(stack)]
    /\ last' = Hist("Enter", 0, 0, last.op \in {"Return", "Return0", "Return1"}, 0)
    /\ UNCHANGED <<frames, open_upvalues, heap, exec>>

\* the bottom of the dispatch loop: heap.step(&root), then the next iteration
Commit(stk, ou, h, pc, hist) ==
    /\ stack' = stk
    /\ open_upvalues' = ou
    /\ heap' = Step(h, RootTrace(stk, state.bottom, ou))
    /\ state' = [state EXCEPT !.pc = pc]
    /\ last' = hist
    /\ exec' = [exec EXCEPT !.insns = @ + 1]
    /\ UNCHANGED frames

Running == state.active /\ exec.insns < fuel

LoadI(a, n) ==
    /\ Running
    /\ Commit(SetReg(stack, state.bottom, a, IntV(n)), open_upvalues, heap,
              state.pc + 1, Hist("LoadI", a, n, FALSE, 0))

\* the process aborts (a Rust panic: unimplemented!(), unwrap, index out of bounds)
Panic(hist) ==
    /\ exec' = [exec EXCEPT !.active = FALSE, !.result = "panic"]
    /\ state' = NoState
    /\ last' = hist
    /\ UNCHANGED <<stack, frames, open_upvalues, heap>>

\* the traceback Vm::execute collects: one entry (the prototype, for its source
\* and lines_defined) for each frame of self.frames, the last frame first
Traceback(fs, stk, h) ==
    [j \in 1..Len(fs) |-> h.objs[At(stk, fs[Len(fs) + 1 - j].bottom).v].proto]

\* Vm::execute returns Err(RuntimeError { source: kind, traceback })
Failed(kind) ==
    [exec EXCEPT !.active = FALSE, !.result = "error", !.error = kind,
                 !.traceback = Traceback(frames, stack, heap)]

\* execute_frame returns Err(kind): Vm::execute returns the RuntimeError
Raise(kind, hist) ==
    /\ exec' = Failed(kind)
    /\ state' = NoState
    /\ last' = hist
    /\ UNCHANGED <<stack, frames, open_upvalues, heap>>

\* a faulty TypeError: R[A] of the instruction is cleared before the error leaves
TypeError_clobber(kind, value, hist) ==
    /\ exec' = [Failed(kind) EXCEPT !.ty = value.t]
    /\ state' = NoState
    /\ last' = hist
    /\ stack' = SetReg(stack, state.bottom, hist.a, Nil)
    /\ UNCHANGED <<frames, open_upvalues, heap>>

\* .ok_or_else(|| ErrorKind::TypeError { operation, ty: value.ty() })?
TypeError(kind, value, hist) ==
    /\ exec' = [Failed(kind) EXCEPT !.ty = value.t]
    /\ state' = NoState
    /\ last' = hist
    /\ UNCHANGED <<stack, frames, open_upvalues, heap>>

\* the upvalue cells of the closure the running frame executes
Upvalues(h, stk, bottom) == h.objs[Closure_(stk, bottom)].upvalues
UpvalIdx == IF state.active
            THEN 0..(Len(Upvalues(heap, stack, state.bottom)) - 1) ELSE {}

\* a faulty resolve_upvalue: the register window indexed from bottom, not from
\* the boundary bottom + 1
resolve_upvalue_from_bottom(stk, bottom, upvalue) ==
    IF upvalue.open
    THEN LET boundary == bottom + 1
             lower_stack == SubSeq(stk, 1, boundary)
             window == SubSeq(stk, boundary + 1, Len(stk))
         IN  IF upvalue.i < boundary
             THEN At(lower_stack, upvalue.i)
             ELSE At(window, upvalue.i - bottom)
    ELSE upvalue.x

\* State::resolve_upvalue over the two halves of the split stack
resolve_upvalue(stk, bottom, upvalue) ==
    IF upvalue.open
    THEN LET boundary == bottom + 1
             lower_stack == SubSeq(stk, 1, boundary)
             window == SubSeq(stk, boundary + 1, Len(stk))
         IN  IF upvalue.i < boundary
             THEN At(lower_stack, upvalue.i)
             ELSE At(window, upvalue.i - boundary)
    ELSE upvalue.x

\* whether resolve_upvalue indexes inside the stack
Resolvable(stk, upvalue) == upvalue.open => upvalue.i < Len(stk)

GetUpval(a, b) ==
    /\ Running
    /\ LET upvalue == heap.objs[At(Upvalues(heap, stack, state.bottom), b)]
       IN  IF Resolvable(stack, upvalue)
           THEN Commit(SetReg(stack, state.bottom, a,
                              resolve_upvalue(stack, state.bottom, upvalue)),
                       open_upvalues, heap, state.pc + 1,
                       Hist("GetUpval", a, b, FALSE, 0))
           ELSE Panic(Hist("GetUpval", a, b, FALSE, 0))

\* OpCode::SetUpval => unimplemented!("SETUPVAL")
SetUpval(a, b) ==
    /\ Running
    /\ Panic(Hist("SetUpval", a, b, FALSE, 0))

GetTabUp(a, b) ==
    /\ Running
    /\ LET upvalue == heap.objs[At(Upvalues(heap, stack, state.bottom), b)]
           hist == Hist("GetTabUp", a, b, FALSE, 0)
       IN  IF ~Resolvable(stack, upvalue) THEN Panic(hist)
           ELSE LET value == resolve_upvalue(stack, state.bottom, upvalue)
                IN  IF value.t # "table" THEN TypeError("TypeError_Index", value, hist)
                    ELSE Commit(SetReg(stack, state.bottom, a, heap.objs[value.v].f),
                                open_upvalues, heap, state.pc + 1, hist)

RECURSIVE Capture_unshared(_, _, _, _, _)
\* a faulty Capture: a cell of its own for every in_stack descriptor, the one in
\* open_upvalues replaced
Capture_unshared(h, ou, descs, bottom, enclosing) ==
    IF descs = <<>> THEN [heap |-> h, open_upvalues |-> ou, upvalues |-> <<>>]
    ELSE LET desc == Head(descs)
             index == bottom + 1 + desc.index
             h1 == IF desc.in_stack THEN Allocate(h, Upvalue_Open(index)) ELSE h
             ou1 == IF desc.in_stack
                    THEN [j \in DOMAIN ou \cup {index} |->
                             IF j = index THEN NextId(h) ELSE ou[j]]
                    ELSE ou
             cell == IF desc.in_stack THEN ou1[index] ELSE At(enclosing, desc.index)
             rest == Capture_unshared(h1, ou1, Tail(descs), bottom, enclosing)
         IN  [rest EXCEPT !.upvalues = <<cell>> \o @]

RECURSIVE Capture(_, _, _, _, _)
\* the upvalue cells of a new closure, one per descriptor, in order: the cell
\* open_upvalues holds for the slot (allocated and entered when there is none),
\* or the cell of the enclosing closure
Capture(h, ou, descs, bottom, enclosing) ==
    IF descs = <<>> THEN [heap |-> h, open_upvalues |-> ou, upvalues |-> <<>>]
    ELSE LET desc == Head(descs)
             index == bottom + 1 + desc.index
             fresh == desc.in_stack /\ index \notin DOMAIN ou
             h1 == IF fresh THEN Allocate(h, Upvalue_Open(index)) ELSE h
             ou1 == IF fresh
                    THEN [j \in DOMAIN ou \cup {index} |->
                             IF j = index THEN NextId(h) ELSE ou[j]]
                    ELSE ou
             cell == IF desc.in_stack THEN ou1[index] ELSE At(enclosing, desc.index)
             rest == Capture(h1, ou1, Tail(descs), bottom, enclosing)
         IN  [rest EXCEPT !.upvalues = <<cell>> \o @]

Closure(a, bx) ==
    /\ Running
    /\ LET descs == Protos[At(Proto(heap, stack, state.bottom).protos, bx)].upvalues
           fresh == {state.bottom + 1 + descs[j].index : j \in {d \in DOMAIN descs : descs[d].in_stack}}
                       \ DOMAIN open_upvalues
       IN  CanAllocate(heap, Cardinality(fresh) + 1)
    /\ LET proto == At(Proto(heap, stack, state.bottom).protos, bx)
           got == Capture(heap, open_upvalues, Protos[proto].upvalues, state.bottom,
                          Upvalues(heap, stack, state.bottom))
           h1 == Allocate(got.heap, LuaClosure(proto, got.upvalues))
       IN  Commit(SetReg(stack, state.bottom, a, LuaV(NextId(got.heap))),
                  got.open_upvalues, h1, state.pc + 1, Hist("Closure", a, bx, FALSE, 0))

\* what a native closure leaves in its stack range
NativeResult == IntV(0)

\* a faulty ResumePc: the pc of the Call itself is saved
ResumePc_at_call(pc) == pc

\* self.frames.last_mut().unwrap().pc = state.pc, state.pc being past the Call
ResumePc(pc) == pc + 1

\* a faulty CalleeFrame: the frame is put on the first argument's slot
CalleeFrame_on_argument(bottom, a) == [bottom |-> bottom + a + 2, pc |-> 0]

\* Frame { bottom: frame.bottom + a + 1, pc: 0 }
CalleeFrame(bottom, a) == [bottom |-> bottom + a + 1, pc |-> 0]

\* a faulty NativeTop: the callee's slot kept besides the results
NativeTop_keep_callee(start, num_results) == start + num_results + 1

\* self.stack.truncate(start + num_results)
NativeTop(start, num_results) == start + num_results

\* OpCode::Call; n is the number of results a native callee declares, ok whether
\* it returns Ok
Call(a, b, n, ok) ==
    /\ Running
    /\ LET ra == Reg(stack, state.bottom, a)
           fs == [frames EXCEPT ![Len(frames)].pc = ResumePc(state.pc)]
           hist == Hist("Call", a, b, ok, n)
       IN  CASE ra.t = "lua" ->
                  /\ n = 0 /\ ok
                  /\ frames' = Append(fs, CalleeFrame(state.bottom, a))
                  /\ state' = NoState
                  /\ last' = hist
                  /\ exec' = [exec EXCEPT !.insns = @ + 1]
                  /\ UNCHANGED <<stack, open_upvalues, heap>>
              [] ra.t = "native" ->
                  LET start == state.bottom + 1 + a
                      end == IF b > 0 THEN start + b ELSE state.prev_stack_top
                  IN  IF end < start \/ end > Len(stack)
                      THEN n = 0 /\ ~ok /\ Panic(hist)
                      ELSE
                      /\ n <= end - start
                      /\ n <= 1
                      /\ IF ok
                         THEN /\ stack' = Truncate(
                                    IF n > 0 THEN Put(stack, start, NativeResult) ELSE stack,
                                    NativeTop(start, n))
                              /\ frames' = fs
                              /\ state' = NoState
                              /\ last' = hist
                              /\ exec' = [exec EXCEPT !.insns = @ + 1]
                              /\ UNCHANGED <<open_upvalues, heap>>
                         ELSE /\ n = 0
                              /\ frames' = fs
                              /\ exec' = Failed("ExplicitError")
                              /\ state' = NoState
                              /\ last' = hist
                              /\ UNCHANGED <<stack, open_upvalues, heap>>
              [] OTHER ->
                  /\ n = 0 /\ ~ok
                  /\ frames' = fs
                  /\ exec' = [Failed("TypeError_Call") EXCEPT !.ty = ra.t]
                  /\ state' = NoState
                  /\ last' = hist
                  /\ UNCHANGED <<stack, open_upvalues, heap>>

\* a faulty CloseAll: the cells are left as they are
CloseAll_none(h, cells, stk) == h

RECURSIVE CloseAll(_, _, _)
\* Upvalue::Open(i) becomes Upvalue::Closed(stack[i]) in each of the cells
CloseAll(h, cells, stk) ==
    IF cells = <<>> THEN h
    ELSE LET c == Head(cells)
             upvalue == h.objs[c]
             h1 == IF upvalue.open
                   THEN [h EXCEPT !.objs[c] = Upvalue_Closed(At(stk, upvalue.i))]
                   ELSE h
         IN  CloseAll(h1, Tail(cells), stk)

\* a faulty split_off: the entry at key itself stays in the map
split_off_above(ou, key) ==
    [taken |-> [j \in {i \in DOMAIN ou : i > key} |-> ou[j]],
     kept |-> [j \in {i \in DOMAIN ou : i <= key} |-> ou[j]]]

\* BTreeMap::split_off(&key): the entries at or above key leave the map
split_off(ou, key) ==
    [taken |-> [j \in {i \in DOMAIN ou : i >= key} |-> ou[j]],
     kept |-> [j \in {i \in DOMAIN ou : i < key} |-> ou[j]]]

\* a faulty NumResults: b taken for the number of results
NumResults_b(b) == b

\* let num_results = b - 1 (b > 0)
NumResults(b) == b - 1

RECURSIVE CopyResults(_, _, _, _, _)
\* for i in 0..num_results { stack[bottom + i] = stack[bottom + 1 + a] }
CopyResults(stk, bottom, a, i, num_results) ==
    IF i >= num_results THEN stk
    ELSE CopyResults(Put(stk, bottom + i, At(stk, bottom + 1 + a)),
                     bottom, a, i + 1, num_results)

Return(a, b, k) ==
    /\ state.active
    /\ b > 0
    /\ LET hist == Hist("Return", a, b, k, 0)
           split == split_off(open_upvalues, state.bottom)
           closing == IF k THEN split.taken ELSE <<>>
           inside == \A j \in DOMAIN closing :
                        heap.objs[closing[j]].open => heap.objs[closing[j]].i < Len(stack)
           num_results == NumResults(b)
       IN  IF ~inside THEN Panic(hist)
           ELSE /\ heap' = CloseAll(heap, MapRefs(closing), stack)
                /\ open_upvalues' = IF k THEN split.kept ELSE open_upvalues
                /\ stack' = Truncate(CopyResults(stack, state.bottom, a, 0, num_results),
                                     state.bottom + num_results)
                /\ frames' = Front(frames)
                /\ state' = NoState
                /\ last' = hist
                /\ UNCHANGED exec

Return0 ==
    /\ state.active
    /\ stack' = Truncate(stack, state.bottom)
    /\ frames' = Front(frames)
    /\ state' = NoState
    /\ last' = Hist("Return0", 0, 0, FALSE, 0)
    /\ UNCHANGED <<open_upvalues, heap, exec>>

Return1(a) ==
    /\ state.active
    /\ stack' = Truncate(Put(stack, state.bottom, Reg(stack, state.bottom, a)),
                         state.bottom + 1)
    /\ frames' = Front(frames)
    /\ state' = NoState
    /\ last' = Hist("Return1", a, 0, FALSE, 0)
    /\ UNCHANGED <<open_upvalues, heap, exec>>

\* a faulty drain_first: the values drained from bottom + 1 on
drain_above(stk, bottom) ==
    IF Len(stk) > bottom + 1 THEN At(stk, bottom + 1) ELSE Nil

\* self.stack.drain(bottom..).next().unwrap_or_default()
drain_first(stk, bottom) ==
    IF Len(stk) > bottom THEN At(stk, bottom) ELSE Nil

\* Vm::execute, after the driver loop
Finish ==
    /\ exec.active
    /\ ~state.active
    /\ Len(frames) <= exec.frame_level
    /\ LET result == drain_first(stack, exec.bottom)
           stk == Truncate(stack, exec.bottom)
       IN  /\ stack' = stk
           /\ heap' = Step(heap, VmTrace(stk, open_upvalues))
           /\ exec' = [exec EXCEPT !.active = FALSE, !.result = "ok", !.value = result]
    /\ last' = Hist("Finish", 0, 0, FALSE, 0)
    /\ UNCHANGED <<frames, open_upvalues, state>>

\* the host calls execute again on the same Vm after a call returned a value
\* or an error (the REPL loop of main)
Retry ==
    /\ ~exec.active
    /\ exec.result \in {"ok", "error"}
    /\ exec' = [exec EXCEPT !.result = "none", !.error = "none", !.ty = "none", !.value = Nil,
                            !.traceback = <<>>]
    /\ last' = Hist("Retry", 0, 0, FALSE, 0)
    /\ UNCHANGED <<stack, frames, open_upvalues, heap, state>>

ChildIdx == IF state.active
            THEN 0..(Len(Proto(heap, stack, state.bottom).protos) - 1) ELSE {}

NewTable(a) ==
    /\ Running
    /\ CanAllocate(heap, 1)
    /\ Commit(SetReg(stack, state.bottom, a, TabV(NextId(heap))), open_upvalues,
              Allocate(heap, Table_new), state.pc + 2, Hist("NewTable", a, 0, FALSE, 0))

GetField(a, b) ==
    /\ Running
    /\ LET rb == Reg(stack, state.bottom, b)
           hist == Hist("GetField", a, b, FALSE, 0)
       IN  IF rb.t # "table" THEN TypeError("TypeError_Index", rb, hist)
           ELSE Commit(SetReg(stack, state.bottom, a, heap.objs[rb.v].f),
                       open_upvalues, heap, state.pc + 1, hist)

\* SetField with k unset: the value operand is register c
SetField(a, c) ==
    /\ Running
    /\ LET ra == Reg(stack, state.bottom, a)
           hist == Hist("SetField", a, c, FALSE, 0)
       IN  IF ra.t # "table" THEN TypeError("TypeError_Index", ra, hist)
           ELSE Commit(stack, open_upvalues,
                       [heap EXCEPT !.objs[ra.v].f = Reg(stack, state.bottom, c)],
                       state.pc + 1, hist)

----------------------------------------------------------------------------
(* Integer arithmetic (runtime/ops.rs and the operators of i64 it is given).  *)
(* An outcome is Ok(v) or Abort, a Rust panic.                                *)

RECURSIVE Pow2(_)
Pow2(n) == IF n = 0 THEN 1 ELSE 2 * Pow2(n - 1)

MinInteger == -Pow2(IntegerBits - 1)
MaxInteger == Pow2(IntegerBits - 1) - 1
Integer == MinInteger..MaxInteger

Ok(v) == [ok |-> TRUE, v |-> v]
Abort == [ok |-> FALSE, v |-> 0]

\* two's complement: the Integer congruent to n modulo 2^IntegerBits
Wrap(n) == ((n - MinInteger) % Pow2(IntegerBits)) + MinInteger

\* x as u64
as_u64(x) == x % Pow2(IntegerBits)

\* the result of +, - or * on i64: a panic on overflow where the build checks
\* it, the wrapped value where it does not
Checked(n) ==
    IF n \in Integer THEN Ok(n)
    ELSE IF overflow_checks THEN Abort ELSE Ok(Wrap(n))

Integer_add(x, y) == Checked(x + y)
Integer_sub(x, y) == Checked(x - y)
Integer_mul(x, y) == Checked(x * y)

\* i64::wrapping_neg
wrapping_neg(m) == Wrap(-m)

Abs(n) == IF n < 0 THEN -n ELSE n

\* m / n on i64: the quotient truncated toward zero
TruncDiv(m, n) ==
    IF n = 0 \/ (m = MinInteger /\ n = -1) THEN Abort
    ELSE Ok((IF (m < 0) = (n < 0) THEN 1 ELSE -1) * (Abs(m) \div Abs(n)))

\* m % n on i64: the remainder, with the sign of m
Rem(m, n) ==
    IF n = 0 \/ (m = MinInteger /\ n = -1) THEN Abort
    ELSE Ok(m - n * TruncDiv(m, n).v)

\* m ^ n < 0, r ^ n < 0: the sign bits differ
XorNegative(m, n) == (m < 0) # (n < 0)

\* a faulty idivi: the truncated quotient
idivi_truncated(m, n) ==
    CASE n = 0 -> Abort
      [] n = -1 -> Ok(wrapping_neg(m))
      [] OTHER -> TruncDiv(m, n)

idivi(m, n) ==
    CASE n = 0 -> Abort
      [] n = -1 -> Ok(wrapping_neg(m))
      [] OTHER ->
           LET q == TruncDiv(m, n)
           IN  IF XorNegative(m, n) /\ Rem(m, n).v # 0
               THEN Checked(q.v - 1)
               ELSE q

\* a faulty modi: the divisor -1 not set apart
modi_general(m, n) ==
    CASE n = 0 -> Abort
      [] OTHER ->
           LET r == Rem(m, n)
           IN  IF ~r.ok THEN Abort
               ELSE IF r.v # 0 /\ XorNegative(r.v, n)
                    THEN Checked(r.v + n)
                    ELSE r

modi(m, n) ==
    CASE n = 0 -> Abort
      [] n = -1 -> Ok(0)
      [] OTHER ->
           LET r == Rem(m, n)
           IN  IF r.v # 0 /\ XorNegative(r.v, n)
               THEN Checked(r.v + n)
               ELSE r

\* u << s on u64: an amount of 64 or more panics where the build checks
\* overflow and is taken modulo 64 where it does not
u64_shl(u, s) ==
    IF s >= IntegerBits
    THEN IF overflow_checks THEN Abort
         ELSE Ok((u * Pow2(s % IntegerBits)) % Pow2(IntegerBits))
    ELSE Ok((u * Pow2(s)) % Pow2(IntegerBits))

\* u >> s on u64
u64_shr(u, s) ==
    IF s >= IntegerBits
    THEN IF overflow_checks THEN Abort
         ELSE Ok(u \div Pow2(s % IntegerBits))
    ELSE Ok(u \div Pow2(s))

\* a faulty shl: the amounts 64 and -64 shifted, not answered with 0
shl_inclusive(x, y) ==
    LET BITS == IntegerBits
    IN  IF y < -BITS \/ BITS < y THEN Ok(0)
        ELSE IF y >= 0
        THEN LET r == u64_shl(as_u64(x), as_u64(y))
             IN  IF r.ok THEN Ok(Wrap(r.v)) ELSE Abort
        ELSE LET r == u64_shr(as_u64(x), as_u64(-y))
             IN  IF r.ok THEN Ok(Wrap(r.v)) ELSE Abort

\* ops::shl
shl(x, y) ==
    LET BITS == IntegerBits
    IN  IF y <= -BITS \/ BITS <= y THEN Ok(0)
        ELSE IF y >= 0
        THEN LET r == u64_shl(as_u64(x), as_u64(y))
             IN  IF r.ok THEN Ok(Wrap(r.v)) ELSE Abort
        ELSE LET r == u64_shr(as_u64(x), as_u64(-y))
             IN  IF r.ok THEN Ok(Wrap(r.v)) ELSE Abort

\* ops::shr
shr(x, y) == shl(x, wrapping_neg(y))

\* <i64 as Shl<i64>>::shl: an amount outside 0..63 panics where the build checks
\* overflow and is taken modulo 64 where it does not
Integer_shl(x, y) ==
    IF (y < 0 \/ y >= IntegerBits) /\ overflow_checks THEN Abort
    ELSE Ok(Wrap(x * Pow2(y % IntegerBits)))

\* <i64 as Shr<i64>>::shr: the same, the shift arithmetic (sign-filling)
Integer_shr(x, y) ==
    IF (y < 0 \/ y >= IntegerBits) /\ overflow_checks THEN Abort
    ELSE Ok(x \div Pow2(y % IntegerBits))

\* the int_op the dispatch loop hands to the helper, by opcode
IntOp(op, x, y) ==
    CASE op \in {"Add", "AddI"} -> Integer_add(x, y)
      [] op = "Sub" -> Integer_sub(x, y)
      [] op = "Mul" -> Integer_mul(x, y)
      [] op = "Shl" -> Integer_shl(x, y)
      [] op = "Shr" -> Integer_shr(x, y)

Some(r) == [some |-> TRUE, abort |-> ~r.ok, value |-> IntV(r.v)]
None == [some |-> FALSE, abort |-> FALSE, value |-> Nil]

\* ops::arithmetic (operands that are Integer or not numbers)
arithmetic(a, b, op) ==
    IF a.t = "int" /\ b.t = "int" THEN Some(IntOp(op, a.v, b.v)) ELSE None

\* ops::bitwise_op (operands that are Integer or not numbers)
bitwise_op(a, b, op) ==
    IF a.t = "int" /\ b.t = "int" THEN Some(IntOp(op, a.v, b.v)) ELSE None

\* a faulty do_arithmetic: the result written, pc left where it is
do_arithmetic_no_skip(stk, bottom, pc, a, b, c, op) ==
    LET result == arithmetic(Reg(stk, bottom, b), Reg(stk, bottom, c), op)
    IN  IF result.some
        THEN [stack |-> SetReg(stk, bottom, a, result.value), pc |-> pc,
              abort |-> result.abort]
        ELSE [stack |-> stk, pc |-> pc, abort |-> FALSE]

\* ops::do_arithmetic; pc is state.pc, already past the instruction
do_arithmetic(stk, bottom, pc, a, b, c, op) ==
    LET result == arithmetic(Reg(stk, bottom, b), Reg(stk, bottom, c), op)
    IN  IF result.some
        THEN [stack |-> SetReg(stk, bottom, a, result.value), pc |-> pc + 1,
              abort |-> result.abort]
        ELSE [stack |-> stk, pc |-> pc, abort |-> FALSE]

\* ops::do_arithmetic_with_immediate
do_arithmetic_with_immediate(stk, bottom, pc, a, b, imm, op) ==
    LET rb == Reg(stk, bottom, b)
    IN  IF rb.t = "int"
        THEN LET r == IntOp(op, rb.v, imm)
             IN  [stack |-> SetReg(stk, bottom, a, IntV(r.v)), pc |-> pc + 1,
                  abort |-> ~r.ok]
        ELSE [stack |-> stk, pc |-> pc, abort |-> FALSE]

\* ops::do_bitwise_op
do_bitwise_op(stk, bottom, pc, a, b, c, op) ==
    LET result == bitwise_op(Reg(stk, bottom, b), Reg(stk, bottom, c), op)
    IN  IF result.some
        THEN [stack |-> SetReg(stk, bottom, a, result.value), pc |-> pc + 1,
              abort |-> result.abort]
        ELSE [stack |-> stk, pc |-> pc, abort |-> FALSE]

\* the instruction done: the helper's stack and pc, or the panic it ended in
Done(r, hist) ==
    IF r.abort THEN Panic(hist)
    ELSE Commit(r.stack, open_upvalues, heap, r.pc, hist)

\* the constant pool of the prototypes: every Integer
Constants == [i \in 0..(Pow2(IntegerBits) - 1) |-> IntV(MinInteger + i)]

\* OpCode::LoadK on the constant pool constants
LoadKOf(constants, a, bx) ==
    /\ Running
    /\ Commit(SetReg(stack, state.bottom, a, constants[bx]), open_upvalues, heap,
              state.pc + 1, Hist("LoadK", a, bx, FALSE, 0))

LoadK(a, bx) == LoadKOf(Constants, a, bx)

Add(a, b, c) ==
    /\ Running
    /\ Done(do_arithmetic(stack, state.bottom, state.pc + 1, a, b, c, "Add"),
            Hist("Add", a, b, FALSE, c))

Sub(a, b, c) ==
    /\ Running
    /\ Done(do_arithmetic(stack, state.bottom, state.pc + 1, a, b, c, "Sub"),
            Hist("Sub", a, b, FALSE, c))

Mul(a, b, c) ==
    /\ Running
    /\ Done(do_arithmetic(stack, state.bottom, state.pc + 1, a, b, c, "Mul"),
            Hist("Mul", a, b, FALSE, c))

\* the immediate operands sC of AddI, ShrI, ShlI
ArithImmediates == {-1, 1}

AddI(a, b, sc) ==
    /\ Running
    /\ Done(do_arithmetic_with_immediate(stack, state.bottom, state.pc + 1, a, b, sc, "AddI"),
            Hist("AddI", a, b, FALSE, sc))

Shl(a, b, c) ==
    /\ Running
    /\ Done(do_bitwise_op(stack, state.bottom, state.pc + 1, a, b, c, "Shl"),
            Hist("Shl", a, b, FALSE, c))

Shr(a, b, c) ==
    /\ Running
    /\ Done(do_bitwise_op(stack, state.bottom, state.pc + 1, a, b, c, "Shr"),
            Hist("Shr", a, b, FALSE, c))

\* OpCode::ShrI => unimplemented!("SHRI")
ShrI(a, b, sc) ==
    /\ Running
    /\ Panic(Hist("ShrI", a, b, FALSE, sc))

\* OpCode::ShlI => unimplemented!("SHLI")
ShlI(a, b, sc) ==
    /\ Running
    /\ Panic(Hist("ShlI", a, b, FALSE, sc))

\* OpCode::Mod => unimplemented!("MOD")
Mod(a, b, c) ==
    /\ Running
    /\ Panic(Hist("Mod", a, b, FALSE, c))

\* OpCode::IDiv => unimplemented!("IDIV")
IDiv(a, b, c) ==
    /\ Running
    /\ Panic(Hist("IDiv", a, b, FALSE, c))

\* OpCode::MmBin => unimplemented!("MMBIN")
MmBin(a, b, c) ==
    /\ Running
    /\ Panic(Hist("MmBin", a, b, FALSE, c))

\* a direct call of a helper of runtime/ops.rs, one in a behaviour
CallOps(fn, x, y) ==
    /\ ops.fn = "none"
    /\ ops' = [fn |-> fn, x |-> x, y |-> y,
               out |-> CASE fn = "idivi" -> idivi(x, y)
                         [] fn = "modi" -> modi(x, y)
                         [] fn = "shl" -> shl(x, y)
                         [] fn = "shr" -> shr(x, y)]
    /\ UNCHANGED <<stack, frames, open_upvalues, heap, state, exec, last>>

----------------------------------------------------------------------------
(* Ordered comparison (ops::lt, ops::le).  A Number (f64) is modelled by twice *)
(* its value, so that the halves are values; a String by its bytes.           *)

MaxStrLen == 2      \* the length of the strings compared

BoolV(b) == [t |-> "boolean", v |-> IF b THEN 1 ELSE 0]
NumV(k) == [t |-> "number", v |-> k]
StrV(s) == [t |-> "string", v |-> s]

\* f64::INFINITY, f64::NEG_INFINITY, f64::NAN
PosInf == 8 * Pow2(IntegerBits)
NegInf == -PosInf
NaN == PosInf + 1

\* the finite Numbers of the model: the halves, to past both ends of Integer
Finite == (2 * MinInteger - 3)..(2 * MaxInteger + 3)
Number == Finite \cup {PosInf, NegInf, NaN}

Bytes == {0, 1}
Strings == UNION {[1..n -> Bytes] : n \in 0..MaxStrLen}

\* <f64 as PartialOrd>::lt, le and a comparison with 0.0: false on NaN
Number_lt(a, b) == a # NaN /\ b # NaN /\ a < b
Number_le(a, b) == a # NaN /\ b # NaN /\ a <= b

\* a faulty ceil: the Number rounded down
ceil_down(x) == IF x \in Finite /\ x % 2 = 1 THEN x - 1 ELSE x

\* f64::ceil, f64::floor
ceil(x) == IF x \in Finite /\ x % 2 = 1 THEN x + 1 ELSE x
floor(x) == IF x \in Finite /\ x % 2 = 1 THEN x - 1 ELSE x

\* number_is_valid_integer: the Number, integral, is representable as an Integer
number_is_valid_integer(x) ==
    x \in Finite /\ x % 2 = 0 /\ (x \div 2) \in Integer

\* x as Integer, x a valid integer
as_Integer(x) == x \div 2

\* the order of LuaString: the lexicographic order of the bytes
LuaString_lt(a, b) ==
    \E i \in 1..(Len(b)) :
        /\ \A j \in 1..(i - 1) : j <= Len(a) /\ a[j] = b[j]
        /\ i > Len(a) \/ (i <= Len(a) /\ a[i] < b[i])
LuaString_le(a, b) == a = b \/ LuaString_lt(a, b)

SomeBool(b) == [some |-> TRUE, value |-> b]
NoBool == [some |-> FALSE, value |-> FALSE]

\* a faulty lt: two Integers compared with <=
lt_inclusive(a, b) ==
    CASE a.t = "int" /\ b.t = "int" -> SomeBool(a.v <= b.v)
      [] a.t = "number" /\ b.t = "number" -> SomeBool(Number_lt(a.v, b.v))
      [] a.t = "string" /\ b.t = "string" -> SomeBool(LuaString_lt(a.v, b.v))
      [] OTHER -> NoBool

\* ops::lt
lt(a, b) ==
    CASE a.t = "int" /\ b.t = "int" -> SomeBool(a.v < b.v)
      [] a.t = "number" /\ b.t = "number" -> SomeBool(Number_lt(a.v, b.v))
      [] a.t = "int" /\ b.t = "number" ->
           LET ceil_b == ceil(b.v)
           IN  SomeBool(IF number_is_valid_integer(ceil_b)
                        THEN a.v < as_Integer(ceil_b)
                        ELSE Number_lt(0, b.v))
      [] a.t = "number" /\ b.t = "int" ->
           LET floor_a == floor(a.v)
           IN  SomeBool(IF number_is_valid_integer(floor_a)
                        THEN as_Integer(floor_a) < b.v
                        ELSE Number_lt(a.v, 0))
      [] a.t = "string" /\ b.t = "string" -> SomeBool(LuaString_lt(a.v, b.v))
      [] OTHER -> NoBool

\* ops::le
le(a, b) ==
    CASE a.t = "int" /\ b.t = "int" -> SomeBool(a.v <= b.v)
      [] a.t = "number" /\ b.t = "number" -> SomeBool(Number_le(a.v, b.v))
      [] a.t = "int" /\ b.t = "number" ->
           LET floor_b == floor(b.v)
           IN  SomeBool(IF number_is_valid_integer(floor_b)
                        THEN a.v <= as_Integer(floor_b)
                        ELSE Number_lt(0, b.v))
      [] a.t = "number" /\ b.t = "int" ->
           LET ceil_a == ceil(a.v)
           IN  SomeBool(IF number_is_valid_integer(ceil_a)
                        THEN as_Integer(ceil_a) <= b.v
                        ELSE Number_lt(a.v, 0))
      [] a.t = "string" /\ b.t = "string" -> SomeBool(LuaString_le(a.v, b.v))
      [] OTHER -> NoBool

\* the operands handed to lt and le: a value of every type
Values ==
    {Nil, BoolV(TRUE), TabV(GlobalTable)}
        \cup {IntV(n) : n \in Integer}
        \cup {NumV(k) : k \in Number}
        \cup {StrV(s) : s \in Strings}

\* a direct call of lt or le, one in a behaviour
CallCompare(fn, a, b) ==
    /\ ops.fn = "none"
    /\ ops' = [fn |-> fn, x |-> a, y |-> b,
               out |-> IF fn = "lt" THEN lt(a, b) ELSE le(a, b)]
    /\ UNCHANGED <<stack, frames, open_upvalues, heap, state, exec, last>>

----------------------------------------------------------------------------
(* Jumps and wide loads.  The code of a prototype is not part of the state:  *)
(* the fields of the instruction at pc, and of the one after it, are chosen  *)
(* when the instruction is executed.                                          *)

\* Value::as_boolean: Nil and false are the falsy values
as_boolean(x) == x.t # "nil" /\ x # BoolV(FALSE)

\* the sJ field of the Jmp instructions
Jumps == {-2, -1, 0, 1}

LoadFalse(a) ==
    /\ Running
    /\ Commit(SetReg(stack, state.bottom, a, BoolV(FALSE)), open_upvalues, heap,
              state.pc + 1, Hist("LoadFalse", a, 0, FALSE, 0))

\* OpCode::Jmp; pc is state.pc, already past the instruction
Jmp(sj) ==
    /\ Running
    /\ state.pc + 1 + sj >= 0
    /\ Commit(stack, open_upvalues, heap, state.pc + 1 + sj, Hist("Jmp", 0, 0, FALSE, sj))

\* a faulty do_conditional_jump: the jump is taken from the Jmp, not from past it
do_conditional_jump_short(pc, sj, k, cond) ==
    IF cond = k THEN pc + sj ELSE pc + 1

\* ops::do_conditional_jump; pc is state.pc, already past the instruction, and
\* sj the sJ field of code[pc]
do_conditional_jump(pc, sj, k, cond) ==
    IF cond = k THEN pc + sj + 1 ELSE pc + 1

\* OpCode::Test
Test(a, k, sj) ==
    /\ Running
    /\ state.pc + 2 + sj >= 0
    /\ LET cond == as_boolean(Reg(stack, state.bottom, a))
       IN  Commit(stack, open_upvalues, heap,
                  do_conditional_jump(state.pc + 1, sj, k, cond),
                  Hist("Test", a, 0, k, sj))

\* OpCode::LoadKX; ax is the Ax field of code[pc], the instruction after it
LoadKX(a, ax) ==
    /\ Running
    /\ IF ax >= MaxStack THEN Panic(Hist("LoadKX", a, ax, FALSE, 0))
       ELSE Commit(SetReg(stack, state.bottom, a, Reg(stack, state.bottom, ax)),
                   open_upvalues, heap, state.pc + 2, Hist("LoadKX", a, ax, FALSE, 0))

----------------------------------------------------------------------------
(* Opcode decoding (runtime/opcode.rs) *)

\* the variants of OpCode in the order of their declaration: the array OPCODES
OPCODES ==
    <<"Move", "LoadI", "LoadF", "LoadK", "LoadKX", "LoadFalse", "LFalseSkip",
       "LoadTrue", "LoadNil", "GetUpval", "SetUpval", "GetTabUp", "GetTable",
       "GetI", "GetField", "SetTabUp", "SetTable", "SetI", "SetField",
       "NewTable", "Self_", "AddI", "AddK", "SubK", "MulK", "ModK", "PowK",
       "DivK", "IDivK", "BAndK", "BOrK", "BXorK", "ShrI", "ShlI", "Add",
       "Sub", "Mul", "Mod", "Pow", "Div", "IDiv", "BAnd", "BOr", "BXor",
       "Shl", "Shr", "MmBin", "MmBinI", "MmBinK", "Unm", "BNot", "Not",
       "Len", "Concat", "Close", "Tbc", "Jmp", "Eq", "Lt", "Le", "EqK",
       "EqI", "LtI", "LeI", "GtI", "GeI", "Test", "TestSet", "Call",
       "TailCall", "Return", "Return0", "Return1", "ForLoop", "ForPrep",
       "TForPrep", "TForCall", "TForLoop", "SetList", "Closure", "VarArg",
       "VarArgPrep", "ExtraArg" >>

\* the values of the 7-bit opcode field of an instruction word
OpcodeField == 0..(Pow2(7) - 1)

\* <OpCode as From<u8>>::from: OPCODES[i as usize], a panic past its end
OpCode_from(i) ==
    IF i < Len(OPCODES) THEN [ok |-> TRUE, v |-> OPCODES[i + 1]]
    ELSE [ok |-> FALSE, v |-> "none"]

\* the opcode field of an instruction word decoded, one word in a behaviour
Decode(i) ==
    /\ ops.fn = "none"
    /\ ops' = [fn |-> "from", x |-> i, y |-> 0, out |-> OpCode_from(i)]
    /\ UNCHANGED <<stack, frames, open_upvalues, heap, state, exec, last>>

----------------------------------------------------------------------------
(* Indexing by a register, an immediate or through an upvalue *)

\* OpCode::GetTable: the key is register c
GetTable(a, b, c) ==
    /\ Running
    /\ LET rb == Reg(stack, state.bottom, b)
           hist == Hist("GetTable", a, b, FALSE, c)
       IN  IF rb.t # "table" THEN TypeError("TypeError_Index", rb, hist)
           ELSE Commit(SetReg(stack, state.bottom, a, heap.objs[rb.v].f),
                       open_upvalues, heap, state.pc + 1, hist)

\* OpCode::GetI: the key is the immediate c
GetI(a, b, c) ==
    /\ Running
    /\ LET rb == Reg(stack, state.bottom, b)
           hist == Hist("GetI", a, b, FALSE, c)
       IN  IF rb.t # "table" THEN TypeError("TypeError_Index", rb, hist)
           ELSE Commit(SetReg(stack, state.bottom, a, heap.objs[rb.v].f),
                       open_upvalues, heap, state.pc + 1, hist)

\* the operand RK(C): constant c when k is set, register c when it is not
RK(stk, bottom, c, k) == IF k THEN Constants[c] ELSE Reg(stk, bottom, c)

\* OpCode::SetTabUp: the table is upvalue a, the key constant b
SetTabUp(a, b, c, k) ==
    /\ Running
    /\ LET upvalue == heap.objs[At(Upvalues(heap, stack, state.bottom), a)]
           hist == Hist("SetTabUp", a, b, k, c)
       IN  IF ~Resolvable(stack, upvalue) THEN Panic(hist)
           ELSE LET table_value == resolve_upvalue(stack, state.bottom, upvalue)
                IN  IF table_value.t # "table"
                    THEN TypeError("TypeError_Index", table_value, hist)
                    ELSE Commit(stack, open_upvalues,
                                [heap EXCEPT !.objs[table_value.v].f =
                                                 RK(stack, state.bottom, c, k)],
                                state.pc + 1, hist)

\* OpCode::SetTable: the table is register a, the key register b
SetTable(a, b, c, k) ==
    /\ Running
    /\ LET ra == Reg(stack, state.bottom, a)
           hist == Hist("SetTable", a, b, k, c)
       IN  IF ra.t # "table" THEN TypeError("TypeError_Index", ra, hist)
           ELSE Commit(stack, open_upvalues,
                       [heap EXCEPT !.objs[ra.v].f = RK(stack, state.bottom, c, k)],
                       state.pc + 1, hist)

\* OpCode::SetI: the table is register a, the key the immediate b
SetI(a, b, c, k) ==
    /\ Running
    /\ LET ra == Reg(stack, state.bottom, a)
           hist == Hist("SetI", a, b, k, c)
       IN  IF ra.t # "table" THEN TypeError("TypeError_Index", ra, hist)
           ELSE Commit(stack, open_upvalues,
                       [heap EXCEPT !.objs[ra.v].f = RK(stack, state.bottom, c, k)],
                       state.pc + 1, hist)

----------------------------------------------------------------------------
(* Concat.  The LuaString the instruction allocates is the value of its bytes. *)

\* the constant pool of a chunk of string literals
StringConstants == [i \in 0..2 |-> StrV(IF i = 0 THEN <<>> ELSE IF i = 1 THEN <<0>> ELSE <<1, 0>>)]

\* state.stack[a..].iter().take(b)
Operands(stk, bottom, a, b) ==
    LET window == Len(stk) - (bottom + 1)
        n == IF b < window - a THEN b ELSE window - a
    IN  [i \in 1..n |-> Reg(stk, bottom, a + i - 1)]

\* a faulty FirstNonString: the last operand that is not a string
LastNonString(operands) ==
    CHOOSE i \in DOMAIN operands :
        /\ operands[i].t # "string"
        /\ \A j \in DOMAIN operands : j > i => operands[j].t = "string"

\* the operand at which the loop returns Err
FirstNonString(operands) ==
    CHOOSE i \in DOMAIN operands :
        /\ operands[i].t # "string"
        /\ \A j \in DOMAIN operands : j < i => operands[j].t = "string"

RECURSIVE concat(_)
\* strings.concat()
concat(strings) ==
    IF strings = <<>> THEN <<>> ELSE Head(strings).v \o concat(Tail(strings))

\* OpCode::Concat
Concat(a, b) ==
    /\ Running
    /\ LET operands == Operands(stack, state.bottom, a, b)
           hist == Hist("Concat", a, b, FALSE, 0)
       IN  IF \E i \in DOMAIN operands : operands[i].t # "string"
           THEN TypeError("TypeError_Concatenate", operands[FirstNonString(operands)], hist)
           ELSE Commit(SetReg(stack, state.bottom, a, StrV(concat(operands))),
                       open_upvalues, heap, state.pc + 1, hist)

----------------------------------------------------------------------------
(* The numeric for loop *)

Move(a, b) ==
    /\ Running
    /\ Commit(SetReg(stack, state.bottom, a, Reg(stack, state.bottom, b)),
              open_upvalues, heap, state.pc + 1, Hist("Move", a, b, FALSE, 0))

\* the first outcome that is a panic, or the last one
Then(r1, r2) == IF r1.ok THEN r2 ELSE Abort

\* the count of ForPrep: (limit - init) / step, or
\* (init - limit) / (-(step + 1) + 1) for a negative step, in the arithmetic of i64
ForCount(init, limit, step) ==
    IF step > 0
    THEN LET d == Integer_sub(limit, init)
         IN  Then(d, TruncDiv(d.v, step))
    ELSE LET d == Integer_sub(init, limit)
             s1 == Integer_add(step, 1)
             n == Checked(-s1.v)
             m == Integer_add(n.v, 1)
         IN  Then(d, Then(s1, Then(n, Then(m, TruncDiv(d.v, m.v)))))

\* OpCode::ForPrep
ForPrep(a, bx) ==
    /\ Running
    /\ LET init == Reg(stack, state.bottom, a)
           limit == Reg(stack, state.bottom, a + 1)
           step == Reg(stack, state.bottom, a + 2)
           hist == Hist("ForPrep", a, bx, FALSE, 0)
       IN  IF ~(init.t = "int" /\ limit.t = "int" /\ step.t = "int") THEN Panic(hist)
           ELSE IF step.v = 0 THEN Panic(hist)
           ELSE IF (IF step.v > 0 THEN init.v > limit.v ELSE init.v < limit.v)
           THEN Commit(stack, open_upvalues, heap, state.pc + 1 + bx + 1, hist)
           ELSE LET count == ForCount(init.v, limit.v, step.v)
                    stk == SetReg(SetReg(stack, state.bottom, a + 3, init),
                                  state.bottom, a + 1, IntV(count.v))
                IN  IF ~count.ok THEN Panic(hist)
                    ELSE Commit(stk, open_upvalues, heap, state.pc + 1, hist)

\* OpCode::ForLoop
ForLoop(a, bx) ==
    /\ Running
    /\ LET index == Reg(stack, state.bottom, a)
           count == Reg(stack, state.bottom, a + 1)
           step == Reg(stack, state.bottom, a + 2)
           hist == Hist("ForLoop", a, bx, FALSE, 0)
       IN  IF step.t # "int" \/ count.t # "int" THEN Panic(hist)
           ELSE IF count.v > 0
           THEN IF index.t # "int" \/ state.pc + 1 < bx THEN Panic(hist)
                ELSE LET next == Integer_add(index.v, step.v)
                         stk == SetReg(SetReg(SetReg(stack, state.bottom, a + 1,
                                                     IntV(count.v - 1)),
                                              state.bottom, a, IntV(next.v)),
                                       state.bottom, a + 3, IntV(next.v))
                     IN  IF ~next.ok THEN Panic(hist)
                         ELSE Commit(stk, open_upvalues, heap, state.pc + 1 - bx, hist)
           ELSE Commit(stack, open_upvalues, heap, state.pc + 1, hist)

----------------------------------------------------------------------------
(* require (stdlib.rs).  The module file and what running it yields are     *)
(* inputs of the call; a module name is a value of type string.             *)

NameV(name) == [t |-> "string", v |-> name]

\* Result::Ok and Result::Err of a library function
Err(v) == [ok |-> FALSE, v |-> v]

\* what a module file may return
ModuleValues == {Nil, BoolV(FALSE), IntV(1)}

\* Table::get_field and Table::set_field on package.loaded: a key set to Nil
\* is removed, and a key that is not there reads as Nil
get_field(table, name) == table[name]
set_field(table, name, value) == [table EXCEPT ![name] = value]

\* let maybe_loaded_value = loaded_table.get_field(module_name)
maybe_loaded_value(arg) == get_field(package.loaded, arg.v)

\* require(arg); file is whether ./<name>.lua loads, fails when run, or runs
\* and returns value
Require(arg, file, value) ==
    /\ exec.result # "panic"
    /\ UNCHANGED <<stack, frames, open_upvalues, heap, state, last>>
    /\ IF arg.t # "string"
       THEN /\ ops' = [fn |-> "require", x |-> arg, y |-> FALSE, out |-> Err(Nil)]
            /\ UNCHANGED <<exec, package>>
       ELSE IF maybe_loaded_value(arg) = Nil
       THEN CASE file = "missing" ->
                   /\ ops' = [fn |-> "require", x |-> arg, y |-> FALSE, out |-> Err(Nil)]
                   /\ exec' = [exec EXCEPT !.result = "panic"]
                   /\ UNCHANGED package
              [] file = "error" ->
                   /\ ops' = [fn |-> "require", x |-> arg, y |-> TRUE, out |-> Err(Nil)]
                   /\ UNCHANGED <<exec, package>>
              [] file = "ok" ->
                   /\ ops' = [fn |-> "require", x |-> arg, y |-> TRUE, out |-> Ok(value)]
                   /\ package' = [loaded |-> set_field(package.loaded, arg.v, value),
                                  required |-> package.required \cup {arg.v}]
                   /\ UNCHANGED exec
       ELSE /\ ops' = [fn |-> "require", x |-> arg, y |-> FALSE,
                       out |-> Ok(maybe_loaded_value(arg))]
            /\ package' = [package EXCEPT !.required = @ \cup {arg.v}]
            /\ UNCHANGED exec

----------------------------------------------------------------------------
(* String indices (stdlib/string.rs) *)

\* x as usize: the bits of an Integer read as unsigned
as_usize(x) == IF x < 0 THEN x + Pow2(IntegerBits) ELSE x

\* start..end, or the panic of an overflow
RangeOf(start, end) ==
    IF start.ok /\ end.ok
    THEN [ok |-> TRUE, start |-> as_usize(start.v), end |-> as_usize(end.v)]
    ELSE [ok |-> FALSE, start |-> 0, end |-> 0]

\* a faulty indices_to_range: a negative j counted from the end without the + 1
indices_to_range_short(i, j, len) ==
    LET start == IF i >= 1 THEN Integer_sub(i, 1)
                 ELSE IF i = 0 THEN Ok(0)
                 ELSE IF i < -len THEN Ok(0)
                 ELSE Integer_add(len, i)
        end == IF j > len THEN Ok(len)
               ELSE IF j >= 0 THEN Ok(j)
               ELSE IF j < -len THEN Ok(0)
               ELSE Integer_add(len, j)
    IN  RangeOf(start, end)

\* indices_to_range
indices_to_range(i, j, len) ==
    LET start == IF i >= 1 THEN Integer_sub(i, 1)
                 ELSE IF i = 0 THEN Ok(0)
                 ELSE IF i < -len THEN Ok(0)
                 ELSE Integer_add(len, i)
        end == IF j > len THEN Ok(len)
               ELSE IF j >= 0 THEN Ok(j)
               ELSE IF j < -len THEN Ok(0)
               ELSE LET sum == Integer_add(len, j)
                    IN  Then(sum, Integer_add(sum.v, 1))
    IN  RangeOf(start, end)

\* a direct call of indices_to_range on a string of length len, one in a
\* behaviour
CallRange(i, j, len) ==
    /\ ops.fn = "none"
    /\ ops' = [fn |-> "indices_to_range", x |-> [i |-> i, j |-> j, len |-> len],
               y |-> 0, out |-> indices_to_range(i, j, len)]
    /\ UNCHANGED <<stack, frames, open_upvalues, heap, state, exec, last>>

Next ==
    \/ Execute
    \/ EnterFrame
    \/ \E a \in Regs, n \in Immediates : LoadI(a, n)
    \/ \E a \in Regs, b \in UpvalIdx : GetUpval(a, b)
    \/ \E a \in Regs, b \in UpvalIdx : SetUpval(a, b)
    \/ \E a \in Regs, b \in UpvalIdx : GetTabUp(a, b)
    \/ \E a \in Regs, bx \in ChildIdx : Closure(a, bx)
    \/ \E a \in Regs, b \in 0..MaxStack, n \in 0..MaxStack, ok \in BOOLEAN :
          a + b <= MaxStack /\ Call(a, b, n, ok)
    \/ \E a \in Regs, b \in 1..(MaxStack + 1), k \in BOOLEAN :
          a + b - 1 <= MaxStack /\ Return(a, b, k)
    \/ Return0
    \/ \E a \in Regs : Return1(a)
    \/ Finish

Spec == Init /\ [][Next /\ UNCHANGED <<fuel, overflow_checks, ops, package>>]_vars

(* A script of table instructions *)
InitTable == fuel = MaxTableInsns /\ overflow_checks = FALSE /\ Start

NextTable ==
    \/ Execute
    \/ EnterFrame
    \/ \E a \in Regs : NewTable(a)
    \/ \E a \in Regs, b \in Regs : GetField(a, b)
    \/ \E a \in Regs, c \in Regs : SetField(a, c)
    \/ Return0
    \/ Finish

SpecTable == InitTable /\ [][NextTable /\ UNCHANGED <<fuel, overflow_checks, ops, package>>]_vars

(* A script of arithmetic instructions, in a build that checks overflow or not *)
InitArith == fuel = MaxArithInsns /\ overflow_checks \in BOOLEAN /\ Start

NextArith ==
    \/ Execute
    \/ EnterFrame
    \/ \E a \in Regs, bx \in DOMAIN Constants : LoadK(a, bx)
    \/ \E a \in Regs, b \in Regs, c \in Regs : Add(a, b, c)
    \/ \E a \in Regs, b \in Regs, c \in Regs : Sub(a, b, c)
    \/ \E a \in Regs, b \in Regs, c \in Regs : Mul(a, b, c)
    \/ \E a \in Regs, b \in Regs, sc \in ArithImmediates : AddI(a, b, sc)
    \/ \E a \in Regs, b \in Regs, c \in Regs : Shl(a, b, c)
    \/ \E a \in Regs, b \in Regs, c \in Regs : Shr(a, b, c)
    \/ \E a \in Regs, b \in Regs, sc \in ArithImmediates : ShrI(a, b, sc)
    \/ \E a \in Regs, b \in Regs, sc \in ArithImmediates : ShlI(a, b, sc)
    \/ \E a \in Regs, b \in Regs, c \in Regs : Mod(a, b, c)
    \/ \E a \in Regs, b \in Regs, c \in Regs : IDiv(a, b, c)
    \/ \E a \in Regs, b \in Regs, c \in Regs : MmBin(a, b, c)
    \/ Return0
    \/ Finish

SpecArith == InitArith /\ [][NextArith /\ UNCHANGED <<fuel, overflow_checks, ops, package>>]_vars

(* A script of the arithmetic instructions that are implemented, on the      *)
(* least Integer, 0 and the greatest Integer                                *)
InitSlot == fuel = MaxSlotInsns /\ overflow_checks \in BOOLEAN /\ Start

NextSlot ==
    \/ Execute
    \/ EnterFrame
    \/ \E a \in Regs, bx \in {0, Pow2(IntegerBits - 1), Pow2(IntegerBits) - 1} :
          LoadK(a, bx)
    \/ \E a \in Regs, b \in Regs, c \in Regs : Add(a, b, c)
    \/ \E a \in Regs, b \in Regs, c \in Regs : Sub(a, b, c)
    \/ \E a \in Regs, b \in Regs, c \in Regs : Mul(a, b, c)
    \/ \E a \in Regs, b \in Regs, sc \in ArithImmediates : AddI(a, b, sc)
    \/ \E a \in Regs, b \in Regs, c \in Regs : Shl(a, b, c)
    \/ \E a \in Regs, b \in Regs, c \in Regs : Shr(a, b, c)
    \/ \E a \in Regs, b \in Regs, c \in Regs : MmBin(a, b, c)
    \/ Return0
    \/ Finish

SpecSlot == InitSlot /\ [][NextSlot /\ UNCHANGED <<fuel, overflow_checks, ops, package>>]_vars

(* The helpers of runtime/ops.rs called directly, on every pair of Integers *)
InitOps == fuel = 0 /\ overflow_checks \in BOOLEAN /\ Start

NextOps ==
    \E fn \in {"idivi", "modi", "shl", "shr"}, x \in Integer, y \in Integer :
        CallOps(fn, x, y)

SpecOps == InitOps /\ [][NextOps /\ UNCHANGED <<fuel, overflow_checks, package>>]_vars

(* lt and le called directly, on every pair of values *)
InitCompare == fuel = 0 /\ overflow_checks = FALSE /\ Start

NextCompare ==
    /\ ops.fn = "none"
    /\ \E fn \in {"lt", "le"}, a \in Values, b \in Values : CallCompare(fn, a, b)

SpecCompare == InitCompare /\ [][NextCompare /\ UNCHANGED <<fuel, overflow_checks, package>>]_vars

(* A script of jumps, tests and loads *)
InitJump == fuel = MaxJumpInsns /\ overflow_checks = FALSE /\ Start

NextJump ==
    \/ Execute
    \/ EnterFrame
    \/ \E a \in Regs, n \in Immediates : LoadI(a, n)
    \/ \E a \in Regs : LoadFalse(a)
    \/ \E sj \in Jumps : Jmp(sj)
    \/ \E a \in Regs, k \in BOOLEAN, sj \in Jumps : Test(a, k, sj)
    \/ \E a \in Regs, ax \in DOMAIN Constants : LoadKX(a, ax)
    \/ Return0
    \/ Finish

SpecJump == InitJump /\ [][NextJump /\ UNCHANGED <<fuel, overflow_checks, ops, package>>]_vars

(* The opcode field of a word decoded *)
InitDecode == fuel = 0 /\ overflow_checks = FALSE /\ Start

NextDecode == \E i \in OpcodeField : Decode(i)

SpecDecode == InitDecode /\ [][NextDecode /\ UNCHANGED <<fuel, overflow_checks, package>>]_vars

(* The chunk `local a, b, c = init, limit, step; for i = a, b, c do x = i end`, *)
(* for every init, limit and step, in a build that checks overflow or not:    *)
(*   0 LoadK 0 init   1 LoadK 1 limit   2 LoadK 2 step                        *)
(*   3 Move 3 0       4 Move 4 1        5 Move 5 2                            *)
(*   6 ForPrep 3 1    7 Move 7 6        8 ForLoop 3 2    9 Return0            *)
InitFor ==
    /\ fuel = 10 + 2 * Pow2(IntegerBits)
    /\ overflow_checks \in BOOLEAN
    /\ Start

NextFor ==
    \/ ExecuteClosure(3)
    \/ EnterFrame
    \/ state.pc \in 0..2 /\ \E bx \in DOMAIN Constants : LoadK(state.pc, bx)
    \/ state.pc \in 3..5 /\ Move(state.pc, state.pc - 3)
    \/ state.pc = 6 /\ ForPrep(3, 1)
    \/ state.pc = 7 /\ Move(7, 6)
    \/ state.pc = 8 /\ ForLoop(3, 2)
    \/ state.pc = 9 /\ Return0
    \/ Finish

SpecFor == InitFor /\ [][NextFor /\ UNCHANGED <<fuel, overflow_checks, ops, package>>]_vars

(* A script of the instructions that index a value *)
InitIndex == fuel = MaxIndexInsns /\ overflow_checks = FALSE /\ Start

NextIndex ==
    \/ Execute
    \/ EnterFrame
    \/ \E a \in Regs, n \in Immediates : LoadI(a, n)
    \/ \E a \in Regs : NewTable(a)
    \/ \E a \in Regs, bx \in ChildIdx : Closure(a, bx)
    \/ \E a \in Regs : Call(a, 1, 0, TRUE)
    \/ \E a \in Regs, b \in UpvalIdx : GetTabUp(a, b)
    \/ \E a \in Regs, b \in Regs, c \in Regs : GetTable(a, b, c)
    \/ \E a \in Regs, b \in Regs : GetI(a, b, 1)
    \/ \E a \in Regs, b \in Regs : GetField(a, b)
    \/ \E a \in UpvalIdx, c \in Regs, k \in BOOLEAN : SetTabUp(a, 0, c, k)
    \/ \E a \in Regs, b \in Regs, c \in Regs, k \in BOOLEAN : SetTable(a, b, c, k)
    \/ \E a \in Regs, c \in Regs, k \in BOOLEAN : SetI(a, 1, c, k)
    \/ \E a \in Regs, c \in Regs : SetField(a, c)
    \/ Return0
    \/ Finish

SpecIndex == InitIndex /\ [][NextIndex /\ UNCHANGED <<fuel, overflow_checks, ops, package>>]_vars

(* A script of loads and Concat in a chunk of three registers *)
InitConcat == fuel = MaxConcatInsns /\ overflow_checks = FALSE /\ Start

NextConcat ==
    \/ ExecuteClosure(4)
    \/ EnterFrame
    \/ \E a \in Regs, n \in Immediates : LoadI(a, n)
    \/ \E a \in Regs, bx \in DOMAIN StringConstants : LoadKOf(StringConstants, a, bx)
    \/ \E a \in Regs, b \in 0..MaxStack : Concat(a, b)
    \/ Return0
    \/ Finish

SpecConcat == InitConcat /\ [][NextConcat /\ UNCHANGED <<fuel, overflow_checks, ops, package>>]_vars

(* require called directly, again and again *)
InitRequire == fuel = 0 /\ overflow_checks = FALSE /\ Start

NextRequire ==
    \E arg \in {NameV(name) : name \in Modules} \cup {Nil},
       file \in {"missing", "error", "ok"}, value \in ModuleValues :
        Require(arg, file, value)

SpecRequire == InitRequire /\ [][NextRequire /\ UNCHANGED <<fuel, overflow_checks>>]_vars

(* indices_to_range called directly, on every pair of indices and length *)
InitRange == fuel = 0 /\ overflow_checks \in BOOLEAN /\ Start

NextRange ==
    /\ ops.fn = "none"
    /\ \E i \in Integer, j \in Integer, len \in 0..MaxInteger : CallRange(i, j, len)

SpecRange == InitRange /\ [][NextRange /\ UNCHANGED <<fuel, overflow_checks, package>>]_vars

(* A host that calls execute repeatedly *)
InitRetry == fuel = MaxRetryInsns /\ overflow_checks = FALSE /\ Start

NextRetry ==
    \/ Execute
    \/ EnterFrame
    \/ \E a \in Regs, n \in Immediates : LoadI(a, n)
    \/ \E a \in Regs, b \in UpvalIdx : GetTabUp(a, b)
    \/ \E a \in Regs, bx \in ChildIdx : Closure(a, bx)
    \/ \E a \in Regs, b \in 0..MaxStack, n \in 0..MaxStack, ok \in BOOLEAN :
          a + b <= MaxStack /\ Call(a, b, n, ok)
    \/ \E a \in Regs, b \in 1..(MaxStack + 1), k \in BOOLEAN :
          a + b - 1 <= MaxStack /\ Return(a, b, k)
    \/ Return0
    \/ \E a \in Regs : Return1(a)
    \/ Finish
    \/ Retry

SpecRetry == InitRetry /\ [][NextRetry /\ UNCHANGED <<fuel, overflow_checks, ops, package>>]_vars

----------------------------------------------------------------------------
(* Properties *)

Range(s) == {s[i] : i \in DOMAIN s}

RECURSIVE Reach(_, _)
\* the objects reachable from the objects in S
Reach(h, S) ==
    LET T == S \cup UNION {Range(ObjRefs(h.objs[o])) : o \in S}
    IN  IF T = S THEN S ELSE Reach(h, T)

RootSet == Range(VmTrace(stack, open_upvalues))

Cells(h) == {o \in DOMAIN h.objs : h.objs[o].kind = "upvalue"}
Closures(h) == {o \in DOMAIN h.objs : h.objs[o].kind = "closure"}

Returns == {"Return", "Return0", "Return1"}

\* the step is a return instruction that completed (the frame was popped)
Returned == last'.op \in Returns /\ exec'.result # "panic"

DeclaredResults(h) ==
    CASE h.op = "Return" -> h.b - 1
      [] h.op = "Return0" -> 0
      [] h.op = "Return1" -> 1

\* C1: no object reachable from the root set (value stack, global table,
\* open-upvalue map) is ever swept, whatever instructions and GC steps interleave.
C1_NoReachableObjectSwept ==
    \A o \in Reach(heap, RootSet) : heap.color[o] # "freed"

\* C2: closures whose in_stack descriptors resolve to the same stack index while
\* the slot's upvalue is open hold the identical cell; right after a Closure
\* instruction each in_stack descriptor's cell is the open cell the map holds for
\* bottom + 1 + index, and each other descriptor's cell is the enclosing closure's.
C2_UpvalueCellIdentity ==
    /\ \A c1 \in Closures(heap), c2 \in Closures(heap) :
         \A j1 \in DOMAIN heap.objs[c1].upvalues, j2 \in DOMAIN heap.objs[c2].upvalues :
            LET u1 == heap.objs[c1].upvalues[j1]
                u2 == heap.objs[c2].upvalues[j2]
            IN  (/\ heap.objs[u1].open
                 /\ heap.objs[u2].open
                 /\ heap.objs[u1].i = heap.objs[u2].i) => u1 = u2
    /\ (last.op = "Closure" /\ state.active) =>
         LET c == Reg(stack, state.bottom, last.a).v
             descs == Protos[heap.objs[c].proto].upvalues
         IN  \A j \in DOMAIN descs :
                LET cell == heap.objs[c].upvalues[j]
                    index == state.bottom + 1 + descs[j].index
                IN  IF descs[j].in_stack
                    THEN /\ heap.objs[cell] = Upvalue_Open(index)
                         /\ index \in DOMAIN open_upvalues
                         /\ open_upvalues[index] = cell
                    ELSE cell = At(Upvalues(heap, stack, state.bottom), descs[j].index)

\* two closures made in one frame share an open cell
C2_Witness ==
    /\ last.op = "Closure"
    /\ state.active
    /\ \E c1 \in Closures(heap), c2 \in Closures(heap) :
         /\ c1 # c2
         /\ Reg(stack, state.bottom, 0) = LuaV(c1)
         /\ Reg(stack, state.bottom, 1) = LuaV(c2)
         /\ \E j \in DOMAIN heap.objs[c1].upvalues :
               /\ heap.objs[c1].upvalues[j] = heap.objs[c2].upvalues[j]
               /\ heap.objs[heap.objs[c1].upvalues[j]].open

\* C3: after Return, Return0 or Return1 pops a frame with bottom b, no upvalue
\* cell is still Open(i) with i >= b.
C3_NoOpenUpvalueInReturnedFrame ==
    [][Returned =>
         \A o \in Cells(heap') : heap'.objs[o].open => heap'.objs[o].i < state.bottom]_vars

\* C4: a Return with k set that pops a frame with bottom b removes every map
\* entry with index i >= b and turns its cell, in place, into Closed(v), v being
\* the content of slot i before the return; the entries below b stay, Open.
C4_ReturnClosesUpvalues ==
    [][(last'.op = "Return" /\ last'.k /\ exec'.result # "panic") =>
         \A i \in DOMAIN open_upvalues :
            IF i >= state.bottom
            THEN /\ i \notin DOMAIN open_upvalues'
                 /\ heap.objs[open_upvalues[i]] = Upvalue_Open(i)
                 /\ heap'.objs[open_upvalues[i]] = Upvalue_Closed(At(stack, i))
            ELSE /\ i \in DOMAIN open_upvalues'
                 /\ open_upvalues'[i] = open_upvalues[i]
                 /\ heap'.objs[open_upvalues[i]] = Upvalue_Open(i)]_vars

\* a Return with k set has closed a cell over a closure and left an entry open
C4_Witness ==
    /\ last.op = "Return"
    /\ last.k
    /\ exec.result # "panic"
    /\ DOMAIN open_upvalues # {}
    /\ \E o \in Cells(heap) : ~heap.objs[o].open /\ heap.objs[o].x.t = "lua"

\* C5: after Return (B - 1 results), Return0 (none) or Return1 (one) in a frame
\* with bottom b the stack length is b + the declared results, and exactly the
\* returning frame has been popped.
C5_StackTopAfterReturn ==
    [][Returned =>
         /\ Len(stack') = state.bottom + DeclaredResults(last')
         /\ frames' = Front(frames)]_vars

\* a callee has returned two results to its caller
C5_Witness ==
    /\ last.op = "Return"
    /\ last.b = 3
    /\ exec.result # "panic"
    /\ frames # <<>>

\* C6: after Return A B (B > 0) slot b + j holds what R[A + j] held before the
\* return, for every j in 0..B-2.
C6_ReturnResultsInOrder ==
    [][(last'.op = "Return" /\ exec'.result # "panic") =>
         \A j \in 0..(last'.b - 2) :
            At(stack', state.bottom + j) = Reg(stack, state.bottom, last'.a + j)]_vars

\* C7: after SetUpval A B the interpreter goes on with the next instruction and
\* the cell B of the running closure reads the value of R[A].
C7_SetUpvalStores ==
    last.op = "SetUpval" =>
        /\ state.active
        /\ resolve_upvalue(stack, state.bottom,
                           heap.objs[At(Upvalues(heap, stack, state.bottom), last.b)])
             = Reg(stack, state.bottom, last.a)

\* C8: GetUpval A B sets R[A], and no other slot, to the content of the absolute
\* stack slot i when the cell is Open(i) and to v when it is Closed(v).
C8_GetUpvalReads ==
    [][(last'.op = "GetUpval" /\ exec'.result # "panic") =>
         LET upvalue == heap.objs[At(Upvalues(heap, stack, state.bottom), last'.b)]
             value == IF upvalue.open THEN At(stack, upvalue.i) ELSE upvalue.x
         IN  stack' = Put(stack, state.bottom + 1 + last'.a, value)]_vars

\* GetUpval has read, through an open cell, a slot of a lower frame that is not nil
C8_Witness ==
    /\ last.op = "GetUpval"
    /\ state.active
    /\ LET upvalue == heap.objs[At(Upvalues(heap, stack, state.bottom), last.b)]
       IN  /\ upvalue.open
           /\ upvalue.i < state.bottom
           /\ Reg(stack, state.bottom, last.a) # Nil

\* C9: Call on a Lua closure R[A] pushes the frame {bottom = b + A + 1, pc = 0}
\* over the callee and saves the index of the next instruction in the caller's
\* frame; a suspended frame keeps what it saved; entering a frame resumes at the
\* saved pc; a return pops the callee and leaves its first result where the
\* callee was.
C9_CallReturnOrdering ==
    [][/\ (last'.op = "Call" /\ Reg(stack, state.bottom, last'.a).t = "lua") =>
            /\ frames' = Append([frames EXCEPT ![Len(frames)].pc = state.pc + 1],
                                [bottom |-> state.bottom + last'.a + 1, pc |-> 0])
            /\ At(stack', state.bottom + last'.a + 1) = Reg(stack, state.bottom, last'.a)
       /\ \A f \in 1..(Len(frames) - 1) : f <= Len(frames') => frames'[f] = frames[f]
       /\ last'.op = "Enter" =>
            /\ frames' = frames
            /\ state'.bottom = Last(frames).bottom
            /\ state'.pc = Last(frames).pc
       /\ Returned =>
            /\ frames' = Front(frames)
            /\ DeclaredResults(last') > 0 =>
                 At(stack', state.bottom) = Reg(stack, state.bottom, last'.a)]_vars

\* a caller has been entered again, past its Call, after its callee returned
C9_Witness ==
    /\ last.op = "Enter"
    /\ last.k
    /\ state.active
    /\ state.pc > 0
    /\ Reg(stack, state.bottom, 0) = IntV(1)

\* C10: Call on a native closure R[A] that returns Ok(n) leaves the stack with
\* start + n slots, start = b + 1 + A, the callee's results from slot start on,
\* the slots below start as they were, pushes and pops no frame, and saves the
\* index of the next instruction.
C10_NativeCallEffect ==
    [][(last'.op = "Call" /\ Reg(stack, state.bottom, last'.a).t = "native" /\ last'.k) =>
         LET start == state.bottom + 1 + last'.a
         IN  /\ Len(stack') = start + last'.n
             /\ \A i \in 0..(start - 1) : At(stack', i) = At(stack, i)
             /\ last'.n > 0 => At(stack', start) = NativeResult
             /\ frames' = [frames EXCEPT ![Len(frames)].pc = state.pc + 1]]_vars

\* a native callee has returned one result
C10_Witness ==
    /\ last.op = "Call"
    /\ last.k
    /\ last.n = 1
    /\ exec.active
    /\ Last(stack) = NativeResult

\* C11: execute records the stack and frame-list lengths at the call; the return
\* of the frame it pushed leaves that frame's first result at the recorded
\* bottom; execute then returns Ok with that value (Nil when the frame returned
\* nothing), the stack and the frame list as long as they were before the call.
C11_ExecuteOnSuccess ==
    [][/\ last'.op = "Execute" =>
            /\ exec'.bottom = Len(stack)
            /\ exec'.frame_level = Len(frames)
       /\ (Returned /\ Len(frames') = exec.frame_level /\ DeclaredResults(last') > 0) =>
            At(stack', exec.bottom) = Reg(stack, state.bottom, last'.a)
       /\ last'.op = "Finish" =>
            /\ last.op \in Returns
            /\ exec'.result = "ok"
            /\ exec'.value = IF DeclaredResults(last) > 0
                              THEN At(stack, exec.bottom) ELSE Nil
            /\ Len(stack') = exec.bottom
            /\ Len(frames') = exec.frame_level]_vars

\* an execute call on a Vm that a failed call left with frames has returned a value
C11_Witness ==
    /\ last.op = "Finish"
    /\ exec.result = "ok"
    /\ exec.value = IntV(1)
    /\ exec.frame_level > 0

\* C12: when execute returns an error, the traceback has exactly one entry for
\* each frame pushed since this execute call began and not yet returned, the
\* innermost first.
C12_TracebackOfCallChain ==
    [][(exec.active /\ exec'.result = "error") =>
         /\ exec'.error # "none"
         /\ exec'.traceback =
               Traceback(SubSeq(frames, exec.frame_level + 1, Len(frames)), stack, heap)]_vars

\* C13: when execute returns an error, the frame list and the value stack are
\* back to what they were before the call.
C13_UnwoundAfterError ==
    [][(exec.active /\ exec'.result = "error") =>
         /\ Len(frames') = exec.frame_level
         /\ Len(stack') = exec.bottom]_vars

ArithOps == {"Add", "Sub", "Mul", "AddI", "Shl", "Shr", "ShrI", "ShlI"}
ImmediateOps == {"AddI", "ShrI", "ShlI"}

\* the operands of the instruction the step executes are both Integers (the I
\* forms have one register operand, and an immediate)
IntegerOperands ==
    /\ Reg(stack, state.bottom, last'.b).t = "int"
    /\ last'.op \notin ImmediateOps => Reg(stack, state.bottom, last'.n).t = "int"

\* the second operand of the instruction the step executes
SecondOperand ==
    IF last'.op = "AddI" THEN last'.n ELSE Reg(stack, state.bottom, last'.n).v

\* C14: an arithmetic or bitwise opcode applied to an operand that does not
\* coerce to a number modifies no register, raises nothing, and the instruction
\* executed next is the one that follows it.
C14_SoftFailArithmetic ==
    [][(last'.op \in ArithOps /\ ~IntegerOperands) =>
         /\ stack' = stack
         /\ exec'.result = "none"
         /\ state'.active
         /\ state'.pc = state.pc + 1]_vars

\* the exact result of an opcode on two Integers
Exact(op, x, y) ==
    CASE op \in {"Add", "AddI"} -> x + y
      [] op = "Sub" -> x - y
      [] op = "Mul" -> x * y

\* C15: Add, Sub, Mul and AddI on two Integers never abort and store the exact
\* result reduced modulo 2^64 into the signed range.
C15_IntegerWrapping ==
    [][(last'.op \in {"Add", "Sub", "Mul", "AddI"} /\ IntegerOperands) =>
         /\ exec'.result # "panic"
         /\ Reg(stack', state.bottom, last'.a) =
              IntV(Wrap(Exact(last'.op, Reg(stack, state.bottom, last'.b).v,
                              SecondOperand)))]_vars

\* floor(x / y)
FloorDiv(x, y) == IF y > 0 THEN x \div y ELSE (-x) \div (-y)

\* C16: for a divisor other than 0 and -1, idivi and modi return (no abort),
\* idivi(a, b) * b + modi(a, b) = a, idivi(a, b) = floor(a / b), and modi(a, b)
\* is 0 or has the sign of b.
C16_FloorDivisionIdentity ==
    (ops.fn \in {"idivi", "modi"} /\ ops.y \notin {0, -1}) =>
        LET q == IF ops.fn = "idivi" THEN ops.out ELSE idivi(ops.x, ops.y)
            r == IF ops.fn = "modi" THEN ops.out ELSE modi(ops.x, ops.y)
        IN  /\ q.ok
            /\ r.ok
            /\ q.v * ops.y + r.v = ops.x
            /\ q.v = FloorDiv(ops.x, ops.y)
            /\ r.v = 0 \/ ((r.v < 0) = (ops.y < 0))

\* idivi has floored a negative, inexact quotient in a build that checks overflow
C16_Witness ==
    /\ ops.fn = "idivi"
    /\ overflow_checks
    /\ ops.x < 0
    /\ ops.y > 1
    /\ ops.x % ops.y # 0
    /\ ops.out.ok

\* C17: IDiv and Mod on Integers with divisor 0 raise an error that execute
\* returns as a RuntimeError; they do not abort.
C17_DivisionByZeroRaises ==
    [][(/\ last'.op \in {"IDiv", "Mod"}
        /\ Reg(stack, state.bottom, last'.b).t = "int"
        /\ Reg(stack, state.bottom, last'.n) = IntV(0)) =>
         exec'.result = "error"]_vars

\* C18: idivi(a, -1) is the wrapping negation of a (min_int for min_int, with no
\* abort) and modi(a, -1) is 0.
C18_DivisorMinusOne ==
    (ops.fn \in {"idivi", "modi"} /\ ops.y = -1) =>
        /\ ops.out.ok
        /\ ops.fn = "idivi" =>
             ops.out.v = IF ops.x = MinInteger THEN MinInteger ELSE -ops.x
        /\ ops.fn = "modi" => ops.out.v = 0

\* modi has been called on min_int and -1
C18_Witness ==
    /\ ops.fn = "modi"
    /\ ops.x = MinInteger
    /\ ops.y = -1
    /\ overflow_checks

\* x shifted left by y as Lua defines it: 0 when |y| >= 64, the logical left
\* shift when y >= 0, the logical right shift by -y when y < 0
LogicalShl(x, y) ==
    IF Abs(y) >= IntegerBits THEN 0
    ELSE IF y >= 0 THEN Wrap(as_u64(x) * Pow2(y))
    ELSE Wrap(as_u64(x) \div Pow2(-y))

\* C19: the Shl opcode yields the Lua shift of x by y and the Shr opcode that of
\* x by the wrapping negation of y; neither aborts.
C19_ShiftOpcodes ==
    [][(last'.op \in {"Shl", "Shr"} /\ IntegerOperands) =>
         /\ exec'.result # "panic"
         /\ Reg(stack', state.bottom, last'.a) =
              IntV(LogicalShl(Reg(stack, state.bottom, last'.b).v,
                              IF last'.op = "Shl" THEN SecondOperand
                              ELSE Wrap(-SecondOperand)))]_vars

\* C20, as amended: shl(x, y) = shl(x, y mod 64) when 0 <= y < 64, shl(x, y) is
\* the logical right shift of x by -y when -64 < y < 0, and shl(x, y) = 0 when
\* |y| >= 64; shl never aborts.
C20_ShiftInvariantNonNegative ==
    ops.fn = "shl" =>
        /\ ops.out.ok
        /\ Abs(ops.y) >= IntegerBits => ops.out.v = 0
        /\ (0 <= ops.y /\ ops.y < IntegerBits) =>
             /\ ops.out = shl(ops.x, ops.y % IntegerBits)
             /\ ops.out.v = Wrap(as_u64(ops.x) * Pow2(ops.y))
        /\ (-IntegerBits < ops.y /\ ops.y < 0) =>
             ops.out.v = Wrap(as_u64(ops.x) \div Pow2(-ops.y))

\* shl has shifted a negative Integer to the right
C20_Witness ==
    /\ ops.fn = "shl"
    /\ ops.x < 0
    /\ ops.y < 0
    /\ ops.out.ok
    /\ ops.out.v > 0

\* C20: shl(x, y) = shl(x, y mod 64) when |y| < 64 (mod with the sign of the
\* divisor), and shl(x, y) = 0 when |y| >= 64.
C20_ShiftInvariant ==
    ops.fn = "shl" =>
        /\ Abs(ops.y) < IntegerBits => ops.out = shl(ops.x, ops.y % IntegerBits)
        /\ Abs(ops.y) >= IntegerBits => ops.out.v = 0

SameOrdered(a, b) == (a.t = "int" /\ b.t = "int") \/ (a.t = "string" /\ b.t = "string")
Ordered(a, b) == (a.t \in {"int", "number"} /\ b.t \in {"int", "number"})
                    \/ (a.t = "string" /\ b.t = "string")

\* a is before b in the lexicographic order of the bytes: a is a proper prefix
\* of b, or the first byte that differs is smaller in a
ByteLexLess(a, b) ==
    LET common == {i \in 0..Len(a) : i <= Len(b) /\ SubSeq(a, 1, i) = SubSeq(b, 1, i)}
        n == CHOOSE i \in common : \A j \in common : j <= i
    IN  IF n = Len(a) THEN n < Len(b)
        ELSE n < Len(b) /\ a[n + 1] < b[n + 1]

\* C21: on two Integers or two Strings lt and le return a defined result,
\* lt(a, b) implies not le(b, a), le(a, b) holds iff lt(a, b) or a = b, Integers
\* are ordered by value and Strings by the lexicographic order of their bytes
\* (zero bytes included); on a pair that is neither two numbers nor two Strings
\* both return the undefined result.
C21_OrderedCompareConsistency ==
    ops.fn \in {"lt", "le"} =>
        LET a == ops.x
            b == ops.y
            l == IF ops.fn = "lt" THEN ops.out ELSE lt(a, b)
            e == IF ops.fn = "le" THEN ops.out ELSE le(a, b)
        IN  /\ SameOrdered(a, b) =>
                 /\ l.some
                 /\ e.some
                 /\ l.value => ~le(b, a).value
                 /\ e.value <=> (l.value \/ a = b)
                 /\ a.t = "int" => (l.value <=> a.v < b.v)
                 /\ a.t = "string" => (l.value <=> ByteLexLess(a.v, b.v))
            /\ ~Ordered(a, b) => (~l.some /\ ~e.some)

\* le has compared a String with a zero byte to a longer one it is a prefix of
C21_Witness ==
    /\ ops.fn = "le"
    /\ ops.x = StrV(<<0>>)
    /\ ops.y = StrV(<<0, 0>>)
    /\ ops.out = SomeBool(TRUE)

\* the heap objects the instruction executed by the step reads or writes
\* through: the running closure (its code, its upvalue list), and the cells
\* and tables the operands lead to
Dereferenced ==
    LET bottom == IF last'.op = "Enter" THEN Last(frames).bottom ELSE state.bottom
        closure == {Closure_(stack, bottom)}
        cell(b) == At(Upvalues(heap, stack, bottom), b)
        table(x) == IF x.t = "table" THEN {x.v} ELSE {}
    IN  CASE last'.op \in {"Enter", "LoadI", "NewTable", "Call"} \cup Returns -> closure
          [] last'.op = "GetField" -> closure \cup table(Reg(stack, bottom, last'.b))
          [] last'.op = "SetField" -> closure \cup table(Reg(stack, bottom, last'.a))
          [] last'.op \in {"GetUpval", "GetTabUp"} ->
               closure \cup {cell(last'.b)}
                   \cup (IF last'.op = "GetTabUp" /\ Resolvable(stack, heap.objs[cell(last'.b)])
                         THEN table(resolve_upvalue(stack, bottom, heap.objs[cell(last'.b)]))
                         ELSE {})
          [] last'.op = "Closure" -> closure \cup Range(Upvalues(heap, stack, bottom))
          [] OTHER -> {}

ExecutedLeavingHeap ==
    /\ \/ last'.op \in {"LoadI", "GetUpval", "GetTabUp", "Call", "Return0", "Return1"}
       \/ last'.op = "Return" /\ ~last'.k
    /\ exec'.result = "none"
    /\ Len(frames') > exec.frame_level

\* the root set after the instruction committed: the whole value stack, the
\* global table, the open-upvalue map
RootsAfter ==
    IF state'.active THEN RootTrace(stack', state'.bottom, open_upvalues')
    ELSE VmTrace(stack', open_upvalues')

\* C23: after every instruction the dispatch loop executes (Call, Return,
\* Return0 and Return1 included) one GC step is performed, on the roots as they
\* are after the instruction.
C23_GcStepPerInstruction ==
    [][ExecutedLeavingHeap => heap' = Step(heap, RootsAfter)]_vars

\* C24: the value a successful execute returns, and everything reachable from
\* it, is still allocated when execute returns: the step execute performs after
\* taking the results off the stack does not reclaim it.
C24_ReturnedValueSurvives ==
    (last.op = "Finish" /\ exec.result = "ok" /\ IsRef(exec.value)) =>
        \A o \in Reach(heap, {exec.value.v}) : heap.color[o] # "freed"

C26_LoadKX ==
    [][last'.op = "LoadKX" =>
         /\ state'.active
         /\ stack' = SetReg(stack, state.bottom, last'.a, Constants[last'.b])
         /\ state'.pc = state.pc + 2]_vars

\* C27: for every value i of the 7-bit opcode field OpCode::from(i) returns an
\* opcode without aborting, the i-th declared one for i in 0..82 (0 is Move,
\* 82 is ExtraArg).
C27_OpcodeDecodingTotal ==
    ops.fn = "from" =>
        /\ ops.out.ok
        /\ ops.x = 0 => ops.out.v = "Move"
        /\ ops.x = 82 => ops.out.v = "ExtraArg"
        /\ ops.x <= 82 => ops.out.v = OPCODES[ops.x + 1]

\* C28: while a frame with bottom b executes instructions the stack has
\* b + 1 + max_stack_size slots, max_stack_size that of the closure in slot b
\* (register k being slot b + 1 + k); entering the frame, the first time or
\* after a callee returned, keeps the slots there were and exposes new ones
\* holding Nil.
C28_FrameReservation ==
    [][/\ state'.active =>
            Len(stack') = state'.bottom + 1
                             + Proto(heap', stack', state'.bottom).max_stack_size
       /\ last'.op = "Enter" =>
            /\ \A i \in 0..(Len(stack') - 1) :
                  At(stack', i) = IF i < Len(stack) THEN At(stack, i) ELSE Nil
            /\ state'.bottom = Last(frames).bottom]_vars

\* a caller has been entered again after its Lua callee returned nothing: the
\* callee's slot, exposed again, holds Nil
C28_Witness ==
    /\ last.op = "Enter"
    /\ last.k
    /\ state.active
    /\ state.pc > 0
    /\ Len(frames) = 1
    /\ Reg(stack, state.bottom, 0) = Nil
    /\ Reg(stack, state.bottom, 1) = Nil

\* the chunk of SpecFor: init, limit and step are the locals in R0, R1, R2, the
\* loop's index, count and step are R3, R4, R5, its user-visible index is R6
ForInit == At(stack, 1).v
ForLimit == At(stack, 2).v
ForStep == At(stack, 3).v

\* the loop is past ForPrep or ForLoop and about to run its body
InBody == state.active /\ state.pc = 7 /\ last.op \in {"ForPrep", "ForLoop"}

\* the loop has been left, by ForPrep or by ForLoop
LoopExited == state.active /\ state.pc = 9 /\ last.op \in {"ForPrep", "ForLoop"}

\* the times the body has run: two instructions an iteration, after the seven
\* that lead to the loop
Iterations == (exec.insns - 7) \div 2

\* the iterations of the loop for i = init, limit, step
ForIterations(init, limit, step) ==
    IF (step > 0 /\ init > limit) \/ (step < 0 /\ init < limit) THEN 0
    ELSE Abs(limit - init) \div Abs(step) + 1

\* C29: for integer init, limit and step other than 0 the loop runs its body
\* no time when the range is empty and floor(|limit - init| / |step|) + 1 times
\* when it is not, the user-visible index being init, init + step, ... and never
\* past limit.
C29_ForLoopIterations ==
    /\ InBody =>
         /\ Reg(stack, state.bottom, 6) = IntV(ForInit + Iterations * ForStep)
         /\ IF ForStep > 0 THEN Reg(stack, state.bottom, 6).v <= ForLimit
            ELSE Reg(stack, state.bottom, 6).v >= ForLimit
         /\ Iterations < ForIterations(ForInit, ForLimit, ForStep)
    /\ LoopExited => Iterations = ForIterations(ForInit, ForLimit, ForStep)
    /\ (exec.result = "panic" /\ last.op \in {"ForPrep", "ForLoop"}) => ForStep = 0

\* C30: for every integer init, limit and step other than 0 the loop is left
\* after a bounded number of back-jumps: ForPrep does not abort, the count in
\* R[A+1] is not negative after ForPrep, the back-jump of ForLoop is taken only
\* while the count is positive, and decreases it.
C30_ForLoopTermination ==
    [][/\ (last'.op = "ForPrep" /\ exec'.result = "panic") => ForStep = 0
       /\ (last'.op = "ForPrep" /\ state'.active /\ state'.pc = 7) =>
            Reg(stack', state.bottom, 4).v >= 0
       /\ (last'.op = "ForLoop" /\ state'.active /\ state'.pc = 7) =>
            /\ Reg(stack, state.bottom, 4).v > 0
            /\ Reg(stack', state.bottom, 4).v < Reg(stack, state.bottom, 4).v]_vars

\* C31: for every init, limit and step other than 0 with a range that is not
\* empty, ForPrep does not overflow and stores the count
\* floor(|limit - init| / |step|), and the index + step of a ForLoop back-jump
\* does not overflow: the new index is the sum in the integers.
C31_ForLoopArithmeticInRange ==
    [][/\ (last'.op = "ForPrep" /\ state.active /\ state.pc = 6 /\ ForStep # 0
            /\ ForIterations(ForInit, ForLimit, ForStep) > 0) =>
            /\ exec'.result # "panic"
            /\ Reg(stack', state.bottom, 4) =
                 IntV(Abs(ForLimit - ForInit) \div Abs(ForStep))
       /\ (last'.op = "ForLoop" /\ state.active /\ state.pc = 8
            /\ Reg(stack, state.bottom, 4).v > 0) =>
            /\ exec'.result # "panic"
            /\ Reg(stack', state.bottom, 3) =
                 IntV(Reg(stack, state.bottom, 3).v + ForStep)]_vars

\* the instructions that index a value, and the value each of them indexes
IndexOps == {"GetTabUp", "GetTable", "GetI", "GetField",
             "SetTabUp", "SetTable", "SetI", "SetField"}

IndexTarget(hist) ==
    CASE hist.op \in {"GetTable", "GetI", "GetField"} -> Reg(stack, state.bottom, hist.b)
      [] hist.op \in {"SetTable", "SetI", "SetField"} -> Reg(stack, state.bottom, hist.a)
      [] hist.op = "GetTabUp" ->
            resolve_upvalue(stack, state.bottom,
                            heap.objs[At(Upvalues(heap, stack, state.bottom), hist.b)])
      [] hist.op = "SetTabUp" ->
            resolve_upvalue(stack, state.bottom,
                            heap.objs[At(Upvalues(heap, stack, state.bottom), hist.a)])

\* an indexing instruction has run on a target that is not a table
IndexedNonTable ==
    /\ state.active
    /\ last'.op \in IndexOps
    /\ exec'.result # "panic"
    /\ IndexTarget(last').t # "table"

\* C32: an indexing instruction whose target is not a table raises
\* TypeError{operation: Index, ty: the type of the target}; no register and no
\* table is modified.
C32_IndexNonTable ==
    [][IndexedNonTable =>
         /\ exec'.result = "error"
         /\ exec'.error = "TypeError_Index"
         /\ exec'.ty = IndexTarget(last').t
         /\ stack' = stack
         /\ heap'.objs = heap.objs]_vars

\* a called function has stored through an upvalue that holds an Integer, and
\* the error names the type
C32_Witness ==
    /\ exec.result = "error"
    /\ exec.error = "TypeError_Index"
    /\ last.op = "SetTabUp"
    /\ exec.ty = "int"

\* the operands of the Concat about to run: registers a .. a + b - 1
ConcatOperand(i) == Reg(stack, state.bottom, last'.a + i)

\* the bytes of registers a + i .. a + b - 1, one after the other
RECURSIVE JoinFrom(_)
JoinFrom(i) ==
    IF i >= last'.b THEN <<>> ELSE ConcatOperand(i).v \o JoinFrom(i + 1)

\* a Concat has run on B operands that lie in the frame's registers
Concatenated ==
    /\ state.active
    /\ last'.op = "Concat"
    /\ last'.a + last'.b <= MaxStack

\* C33: Concat A B on B strings sets R[A] to their bytes in register order and
\* changes no other register; when an operand is not a string it raises
\* TypeError{operation: Concatenate, ty: the type of the first such operand}
\* and changes no register.
C33_Concat ==
    [][Concatenated =>
         IF \A i \in 0..(last'.b - 1) : ConcatOperand(i).t = "string"
         THEN /\ exec'.result = "none"
              /\ stack' = SetReg(stack, state.bottom, last'.a, StrV(JoinFrom(0)))
         ELSE /\ exec'.result = "error"
              /\ exec'.error = "TypeError_Concatenate"
              /\ \E i \in 0..(last'.b - 1) :
                    /\ ConcatOperand(i).t # "string"
                    /\ \A j \in 0..(i - 1) : ConcatOperand(j).t = "string"
                    /\ exec'.ty = ConcatOperand(i).t
              /\ stack' = stack]_vars

\* three strings have been joined, the second of them not empty
C33_Witness ==
    /\ state.active
    /\ last.op = "Concat"
    /\ last.a = 0
    /\ last.b = 3
    /\ Reg(stack, state.bottom, 0) = StrV(<<1, 0, 0>>)
    /\ Reg(stack, state.bottom, 1) = StrV(<<0>>)

\* the order of the reals on an Integer i and a Number f: the Number is twice
\* its value, the infinities lie past every Integer, and NaN is on neither side
IntegerLess(i, f) == f # NaN /\ 2 * i < f
IntegerLessEq(i, f) == f # NaN /\ 2 * i <= f
NumberLess(f, i) == f # NaN /\ f < 2 * i
NumberLessEq(f, i) == f # NaN /\ f <= 2 * i

\* C34: lt and le on an Integer and a Number, in either order, are the
\* comparison of the two real values: exact when the Number has a fractional
\* part, decided by its sign when it lies outside the Integers or is infinite,
\* and false when it is NaN.
C34_MixedCompareExact ==
    /\ (ops.fn \in {"lt", "le"} /\ ops.x.t = "int" /\ ops.y.t = "number") =>
         ops.out = SomeBool(IF ops.fn = "lt" THEN IntegerLess(ops.x.v, ops.y.v)
                            ELSE IntegerLessEq(ops.x.v, ops.y.v))
    /\ (ops.fn \in {"lt", "le"} /\ ops.x.t = "number" /\ ops.y.t = "int") =>
         ops.out = SomeBool(IF ops.fn = "lt" THEN NumberLess(ops.x.v, ops.y.v)
                            ELSE NumberLessEq(ops.x.v, ops.y.v))

\* the largest Integer is below the Number half a unit above it, whose ceiling
\* is no Integer
C34_Witness ==
    /\ ops.fn = "lt"
    /\ ops.x = IntV(MaxInteger)
    /\ ops.y = NumV(2 * MaxInteger + 1)
    /\ ops.out = SomeBool(TRUE)

\* an arithmetic or bitwise instruction has run at index state.pc and the
\* process goes on
ArithmeticDone ==
    /\ state.active
    /\ last'.op \in {"Add", "Sub", "Mul", "AddI", "Shl", "Shr"}
    /\ exec'.result # "panic"

\* its operands coerce: R[B] is an Integer, and so is R[C] where C is a register
OperandsCoerce ==
    /\ Reg(stack, state.bottom, last'.b).t = "int"
    /\ last'.op # "AddI" => Reg(stack, state.bottom, last'.n).t = "int"

C36_OpenUpvalueMap ==
    /\ \A k \in DOMAIN open_upvalues :
          /\ open_upvalues[k] \in DOMAIN heap.objs
          /\ heap.objs[open_upvalues[k]] = Upvalue_Open(k)
    /\ \A o \in DOMAIN heap.objs :
          heap.objs[o].kind = "closure" =>
              \A j \in DOMAIN heap.objs[o].upvalues :
                  LET cell == heap.objs[o].upvalues[j]
                  IN  (/\ cell \in DOMAIN heap.objs
                       /\ heap.objs[cell].kind = "upvalue"
                       /\ heap.objs[cell].open) =>
                          /\ heap.objs[cell].i \in DOMAIN open_upvalues
                          /\ open_upvalues[heap.objs[cell].i] = cell

\* a Return with k has closed a cell a closure holds, which has left the map,
\* and another cell is still open and in the map
C36_Witness ==
    /\ last.op = "Return"
    /\ last.k
    /\ DOMAIN open_upvalues # {}
    /\ \E o \in DOMAIN heap.objs :
          /\ heap.objs[o].kind = "closure"
          /\ \E j \in DOMAIN heap.objs[o].upvalues :
                LET cell == heap.objs[o].upvalues[j]
                IN  /\ cell \in DOMAIN heap.objs
                    /\ heap.objs[cell].kind = "upvalue"
                    /\ ~heap.objs[cell].open
                    /\ heap.objs[cell].x.t = "lua"

C38_RequireCaches ==
    [][(/\ ops'.fn = "require"
        /\ ops'.x.t = "string"
        /\ ops'.x.v \in package.required
        /\ exec'.result # "panic") =>
           /\ ~ops'.y
           /\ ops'.out = Ok(package.loaded[ops'.x.v])]_vars

\* the 1-based inclusive interval of string.sub(s, i, j) on a string of length
\* len: a negative index counts from the end, the lower end is at least 1 and
\* the upper end at most len
LuaFirst(i, len) ==
    IF i < 0 THEN (IF len + i + 1 < 1 THEN 1 ELSE len + i + 1)
    ELSE IF i = 0 THEN 1 ELSE i
LuaLast(j, len) ==
    IF j < 0 THEN len + j + 1 ELSE IF j > len THEN len ELSE j

\* C39: for every i, j and length len >= 0, indices_to_range returns a range
\* that is empty or has 0 <= start < end <= len, and that is not empty exactly
\* when the interval [i, j] of the string is not, being then its 0-based
\* half-open form.
C39_IndicesToRange ==
    ops.fn = "indices_to_range" =>
        LET i == ops.x.i
            j == ops.x.j
            len == ops.x.len
            range == ops.out
        IN  /\ range.ok
            /\ range.start >= range.end
                  \/ (0 <= range.start /\ range.start < range.end /\ range.end <= len)
            /\ (range.start < range.end) <=> (LuaFirst(i, len) <= LuaLast(j, len))
            /\ range.start < range.end =>
                  /\ range.start = LuaFirst(i, len) - 1
                  /\ range.end = LuaLast(j, len)

\* the last two bytes of a string of three, by negative indices
C39_Witness ==
    /\ ops.fn = "indices_to_range"
    /\ ops.x = [i |-> -2, j |-> -1, len |-> 3]
    /\ ops.out = [ok |-> TRUE, start |-> 1, end |-> 3]

====
